---------------------------- MODULE Spec2Model ----------------------------
(***************************************************************************)
(* Layout reconstruction engine of Open-PDF-Translate: the LayoutDetector  *)
(* orchestrator (src/processing.ts), the ParagraphMerger stages            *)
(* (src/ParagraphMerger.ts), the GapDetector (src/unnamed/part_001), the   *)
(* Snapshot builder (src/unnamed/part_002) and the RegionDetector          *)
(* (src/RegionDetector.ts).                                                *)
(*                                                                         *)
(* Numbers.  Fragment coordinates and font sizes are integers.  Every      *)
(* multiplier of LayoutSettings is held in hundredths (1.35 is 135) and    *)
(* every comparison of the source is cross-multiplied, so no rounding      *)
(* takes place.  The global line height is a fraction [n, d].              *)
(***************************************************************************)
EXTENDS Integers, Sequences, FiniteSets, TLC

VARIABLES
    infoMap,         \* Seq of SpanInfo records: the snapshot, in insertion order
    pageRect,        \* [left, top, right, bottom] of the page
    settings,        \* the varying part of LayoutSettings
    pc,              \* position inside detectLayout / the harness
    paragraphs,      \* Seq(Seq(span id)): the current paragraph list
    lineHeight,      \* [n, d]: estimateLineHeightFromInfos
    verticalStrips,  \* Seq of VerticalStrip (orchestrator-filtered)
    layoutBands,     \* Seq of HorizontalBand (buildLayoutBands)
    guard,           \* the loop counter of step 7
    nestedPasses,    \* how many times mergeNestedParagraphsOnceFromInfos ran
    aux,             \* per-specification scratch record
    region,          \* the state of a call of segmentVerticalLayouts
    calls,           \* the invocations made on one LayoutDetector, and their results
    bulk,            \* the TranslateMultiplePagesModal class and its instances
    plugin           \* the plugin outside detectLayout: overlays, storage, page loads

vars == << infoMap, pageRect, settings, pc, paragraphs, lineHeight,
           verticalStrips, layoutBands, guard, nestedPasses, aux, region, calls, bulk, plugin >>

\* the variables of detectLayout
layoutVars == << infoMap, pageRect, settings, pc, paragraphs, lineHeight,
                verticalStrips, layoutBands, guard, nestedPasses, aux >>

----------------------------------------------------------------------------
(* Arithmetic helpers *)

Abs(x) == IF x < 0 THEN -x ELSE x
Min(a, b) == IF a < b THEN a ELSE b
Max(a, b) == IF a > b THEN a ELSE b

RECURSIVE SumSeq(_)
SumSeq(s) == IF s = <<>> THEN 0 ELSE Head(s) + SumSeq(Tail(s))

RECURSIVE FlattenSeq(_)
FlattenSeq(ss) == IF ss = <<>> THEN <<>> ELSE Head(ss) \o FlattenSeq(Tail(ss))

Range(s) == { s[i] : i \in DOMAIN s }

\* Array.prototype.sort is stable: an element is placed behind every element
\* that compares less and behind every earlier element that compares equal.
\* Less(a, b) is "comparator(a, b) < 0".
SortBy(Less(_, _), s) ==
    LET n == Len(s)
        rank(i) == 1 + Cardinality({ j \in 1..n :
                          Less(s[j], s[i]) \/ (j < i /\ ~ Less(s[i], s[j])) })
    IN  [k \in 1..n |-> s[CHOOSE i \in 1..n : rank(i) = k]]

IntLess(a, b) == a < b

----------------------------------------------------------------------------
(* LayoutSettings defaults, in hundredths unless said otherwise *)

lineHeightMultiplier == 160
minStripConfidence == 70
minStripWidthPx == 4                     \* pixels
maxIterMergesDefault == 10               \* iterations
minBandConfidence == 60
bandTopBottomThresholdMultiplier == 75
inferredBandConfidence == 80
bandMergeGapPx == 2                      \* pixels
bandMergeGapLineHeightMultiplier == 20
maxGapFractionOfPageHeight == 50
minGapsForTrim == 5                      \* samples
trimPercent == 15
lineHeightFromAvgMultiplier == 125
floorMultiplier == 80
minOverlapFracForBand == 40
minRegionWidth == 1                      \* pixels
pmMinStripConfidenceSplit == 70
pmMinStripWidthPx == 6                   \* pixels
pmMinStripOverlapFrac == 60
pmInitialMergeBaselineTolNonMath == 45
pmInitialMergeBaselineTolMath == 75
pmInitialMergeKernTolNonMath == 55
pmInitialMergeKernTolMath == 90
pmHyphenContinuationTol == 180
pmInitialMergeAlignTolNonMath == 200
pmInitialMergeAlignTolMath == 200
pmInitialMergeVerticalGapMultiplier == 130
pmInitialMergeVerticalGapMaxMultiplier == 220
pmStackedMergeAlignTol == 200
pmStackedMergeOverlapFrac == 25
pmStackedMergeVerticalGapMultiplier == 135
pmStackedMergeVerticalGapMaxMultiplier == 200
pmGeneralMergeAlignTol == 200
pmGeneralMergeOverlapFrac == 25
pmGeneralMergeVerticalGapMultiplier == 135
pmGeneralMergeVerticalGapMaxMultiplier == 200
pmNestedMergeOverlapFrac == 70
pmStitchBaselineTolNonMath == 45
pmStitchBaselineTolMath == 75
pmStitchKernTolNonMath == 55
pmStitchKernTolMath == 90
pmInlineSpanMaxWeightDiff == 300         \* font-weight units
pmInlineSpanAllowMixedStyle == TRUE
pmSameColumnCoverageRatio == 65
pmMathMergeBaselineTol == 200
pmMathMergeHorizTol == 150
pmMathMergeCenterTol == 250
pmSplitLineHeightTol == 70
pmSplitBoundaryDedupTol == 30
pmSplitInterWordGapTol == 120
pmSplitColumnGapTol == 250

\* ParagraphMerger.forceLinearMerge, captured from settings.pmForceLinearMerge
forceLinearMerge == settings.pmForceLinearMerge

----------------------------------------------------------------------------
(* Snapshot: SpanInfo records *)

\* The text of a span is one of a few representative strings; what the code
\* reads of a text are the three regular expressions below.
\*   "word"  plain letters               "co-"   ends in '-' (U+002D)
\*   "co~"   ends in a soft hyphen       "="     an operator
\*   "alpha" a Greek letter              ""      empty
TextEndsWithHyphen(t) == t \in { "co-", "co~" }
TextHasMathChar(t) == t \in { "co-", "=", "alpha" }
TextHasOperator(t) == t \in { "co-", "=" }

isMathContentFont(fontFamily) == fontFamily \in { "Cambria Math" }

isMathElementText(text, fontFamily) ==
    IF text = "" THEN FALSE
    ELSE IF isMathContentFont(fontFamily) THEN TRUE
    ELSE TextHasMathChar(text)

Rect(i) == infoMap[i].rect
Style(i) == infoMap[i].style
RectWidth(r) == r.right - r.left
RectHeight(r) == r.bottom - r.top

\* comparator  (a, b) => ra.top - rb.top || ra.left - rb.left
TopLeftLess(a, b) ==
    \/ Rect(a).top < Rect(b).top
    \/ Rect(a).top = Rect(b).top /\ Rect(a).left < Rect(b).left

SortTopLeft(spans) == SortBy(TopLeftLess, spans)

----------------------------------------------------------------------------
(* ParagraphMerger: style predicate *)

\* NormalizedStyle carries no isMathElement field, so style.isMathElement is
\* undefined (falsy) and the math-aware branch of stylesMatchStyle is dead.
StyleIsMathElement(st) == FALSE

ColorDistSq(a, b) ==
    (a.colorRGB[1] - b.colorRGB[1]) * (a.colorRGB[1] - b.colorRGB[1])
    + (a.colorRGB[2] - b.colorRGB[2]) * (a.colorRGB[2] - b.colorRGB[2])
    + (a.colorRGB[3] - b.colorRGB[3]) * (a.colorRGB[3] - b.colorRGB[3])

\* the style predicate without the force-linear shortcut of line 654
stylesMatchStrict(a, b) ==
    /\ a.fontFamily = b.fontFamily
    /\ Abs(a.fontSize - b.fontSize) <= 1
    /\ ColorDistSq(a, b) < 100
    /\ Abs(a.fontWeight - b.fontWeight) <= pmInlineSpanMaxWeightDiff
    /\ (pmInlineSpanAllowMixedStyle \/ a.fontStyle = b.fontStyle)

stylesMatchStyle(a, b) ==
    IF forceLinearMerge THEN TRUE
    ELSE IF StyleIsMathElement(a) \/ StyleIsMathElement(b)
    THEN /\ a.fontFamily = b.fontFamily
         /\ a.fontStyle = b.fontStyle
         /\ a.fontWeight = b.fontWeight
         /\ Abs(a.fontSize - b.fontSize) <= 1
         /\ ColorDistSq(a, b) < 100
    ELSE /\ a.fontFamily = b.fontFamily
         /\ Abs(a.fontSize - b.fontSize) <= 1
         /\ ColorDistSq(a, b) < 100
         /\ Abs(a.fontWeight - b.fontWeight) <= pmInlineSpanMaxWeightDiff
         /\ (pmInlineSpanAllowMixedStyle \/ a.fontStyle = b.fontStyle)

stylesMatch(ia, ib) == stylesMatchStyle(ia.style, ib.style)

----------------------------------------------------------------------------
(* ParagraphMerger stage 1: mergeIntoParagraphsFromInfos *)

\* NormalizedStyle has no direction field either: isRTL is always false.
IsRTL(ci, pi) == FALSE

\* stage 1 without the hyphen rule
noHyphenContinuation(ci, pi) == FALSE

hyphenContinuation(ci, pi) ==
    /\ TextEndsWithHyphen(pi.text)
    /\ ci.rect.top > pi.rect.top
    /\ Abs(ci.rect.left - pi.rect.left) * 100
         < ci.style.fontSize * pmHyphenContinuationTol

\* the kerning rule without its distance limit
kerningAnyDistance(ci, pi) ==
    LET minF == Min(ci.style.fontSize, pi.style.fontSize)
        math == ci.isMathElement \/ pi.isMathElement
        baseTol == minF * (IF math THEN pmInitialMergeBaselineTolMath
                                   ELSE pmInitialMergeBaselineTolNonMath)
    IN  Abs(ci.rect.bottom - pi.rect.bottom) * 100 < baseTol
        /\ ci.rect.left - pi.rect.right >= 0

smallInlineKerning(ci, pi) ==
    LET minF == Min(ci.style.fontSize, pi.style.fontSize)
        math == ci.isMathElement \/ pi.isMathElement
        baseTol == minF * (IF math THEN pmInitialMergeBaselineTolMath
                                   ELSE pmInitialMergeBaselineTolNonMath)
        kernTol == minF * (IF math THEN pmInitialMergeKernTolMath
                                   ELSE pmInitialMergeKernTolNonMath)
        sameBaseline == Abs(ci.rect.bottom - pi.rect.bottom) * 100 < baseTol
        dx == ci.rect.left - pi.rect.right
    IN  sameBaseline /\
        (IF IsRTL(ci, pi) THEN dx <= 0 /\ dx * 100 > -kernTol
                          ELSE dx >= 0 /\ dx * 100 < kernTol)

closeAndAligned(ci, pi) ==
    LET minF == Min(ci.style.fontSize, pi.style.fontSize)
        maxFontSize == Max(ci.style.fontSize, pi.style.fontSize)
        math == ci.isMathElement \/ pi.isMathElement
        alignTol == minF * (IF math THEN pmInitialMergeAlignTolMath
                                    ELSE pmInitialMergeAlignTolNonMath)
        leftAligned == Abs(ci.rect.left - pi.rect.left) * 100 < alignTol
        rightAligned == Abs(ci.rect.right - pi.rect.right) * 100 < alignTol
        \* verticalTolerance x 10000
        tolA == maxFontSize * lineHeightMultiplier * pmInitialMergeVerticalGapMultiplier
        tolB == maxFontSize * pmInitialMergeVerticalGapMaxMultiplier * 100
        verticalGap == ci.rect.top - pi.rect.bottom
    IN  verticalGap * 10000 <= Min(tolA, tolB) /\ (leftAligned \/ rightAligned)

\* the condition of lines 169-176: cur extends the current paragraph
initialMergeOk(cur, prev) ==
    LET ci == infoMap[cur]
        pi == infoMap[prev]
    IN  stylesMatch(ci, pi) /\
        (closeAndAligned(ci, pi) \/ smallInlineKerning(ci, pi) \/ hyphenContinuation(ci, pi))

\* the grouping loop without the flush of the last paragraph (line 183)
RECURSIVE GroupFromNoFlush(_, _, _, _)
GroupFromNoFlush(ordered, i, paras, current) ==
    IF i > Len(ordered) THEN paras
    ELSE LET cur == ordered[i] IN
         IF current = <<>> THEN GroupFromNoFlush(ordered, i + 1, paras, << cur >>)
         ELSE IF initialMergeOk(cur, current[Len(current)])
              THEN GroupFromNoFlush(ordered, i + 1, paras, Append(current, cur))
              ELSE GroupFromNoFlush(ordered, i + 1, Append(paras, current), << cur >>)

RECURSIVE GroupFrom(_, _, _, _)
GroupFrom(ordered, i, paras, current) ==
    IF i > Len(ordered)
    THEN IF current # <<>> THEN Append(paras, current) ELSE paras
    ELSE LET cur == ordered[i] IN
         IF current = <<>> THEN GroupFrom(ordered, i + 1, paras, << cur >>)
         ELSE IF initialMergeOk(cur, current[Len(current)])
              THEN GroupFrom(ordered, i + 1, paras, Append(current, cur))
              ELSE GroupFrom(ordered, i + 1, Append(paras, current), << cur >>)

mergeIntoParagraphsFromInfos ==
    GroupFrom(SortTopLeft([i \in 1..Len(infoMap) |-> i]), 1, <<>>, <<>>)


----------------------------------------------------------------------------
(* LayoutDetector.estimateLineHeightFromInfos *)

RECURSIVE Gcd(_, _)
Gcd(a, b) == IF b = 0 THEN a ELSE Gcd(b, a % b)

\* the fraction n/d (d > 0) in lowest terms
Frac(n, d) == LET g == Gcd(Abs(n), d) IN
              IF g = 0 THEN [n |-> 0, d |-> 1] ELSE [n |-> n \div g, d |-> d \div g]

FracLess(a, b) == a.n * b.d < b.n * a.d
FracMax(a, b) == IF FracLess(a, b) THEN b ELSE a

RectTopLess(a, b) == a.top < b.top

\* the gaps one paragraph contributes (lines 850-855)
RECURSIVE LineGapsFrom(_, _)
LineGapsFrom(lines, i) ==
    IF i > Len(lines) THEN <<>>
    ELSE LET gap == lines[i].top - lines[i - 1].bottom IN
         (IF gap > 0 /\ gap * 100 < RectHeight(pageRect) * maxGapFractionOfPageHeight
          THEN << gap >> ELSE <<>>) \o LineGapsFrom(lines, i + 1)

ParagraphGaps(p) ==
    IF Len(p) < 2 THEN <<>>
    ELSE LineGapsFrom(SortBy(RectTopLess, [k \in 1..Len(p) |-> Rect(p[k])]), 2)

RECURSIVE AllGaps(_)
AllGaps(paras) ==
    IF paras = <<>> THEN <<>> ELSE ParagraphGaps(Head(paras)) \o AllGaps(Tail(paras))

\* twice the median of a sorted, non-empty sequence
Median2(sorted) ==
    LET n == Len(sorted)
        mid == n \div 2
    IN  IF n % 2 = 1 THEN 2 * sorted[mid + 1] ELSE sorted[mid] + sorted[mid + 1]

estimateLineHeightFromInfos(paras) ==
    LET gaps == SortBy(IntLess, AllGaps(paras))
        trim == (Len(gaps) * trimPercent) \div 100
        trimmed == SubSeq(gaps, trim + 1, Len(gaps) - trim)
        lhFromGaps ==
            IF Len(gaps) >= minGapsForTrim /\ Len(trimmed) > 0
            THEN Frac(SumSeq(trimmed) * lineHeightFromAvgMultiplier, Len(trimmed) * 100)
            ELSE Frac(0, 1)
        sizes == SortBy(IntLess,
                   SelectSeq([k \in 1..Len(infoMap) |-> infoMap[k].style.fontSize],
                             LAMBDA v : v > 0))
    IN  IF sizes = <<>> THEN Frac(16, 1)
        ELSE LET floor == Frac(Median2(sizes) * lineHeightMultiplier * floorMultiplier, 20000)
                 chosen == FracMax(lhFromGaps, floor)
             IN  IF chosen.n # 0 THEN chosen
                 ELSE Frac(Median2(sizes) * lineHeightMultiplier, 200)

----------------------------------------------------------------------------
(* ParagraphMerger geometry helpers *)

RECURSIVE BboxFrom(_, _, _)
BboxFrom(spans, i, acc) ==
    IF i > Len(spans) THEN acc
    ELSE LET r == Rect(spans[i]) IN
         BboxFrom(spans, i + 1,
                  [left |-> Min(acc.left, r.left), top |-> Min(acc.top, r.top),
                   right |-> Max(acc.right, r.right), bottom |-> Max(acc.bottom, r.bottom)])

getParaBbox(spans) ==
    IF spans = <<>> THEN [left |-> 0, top |-> 0, right |-> 0, bottom |-> 0]
    ELSE BboxFrom(spans, 2, [left |-> Rect(spans[1]).left, top |-> Rect(spans[1]).top,
                             right |-> Rect(spans[1]).right, bottom |-> Rect(spans[1]).bottom])

\* filterStrips(strips, viewportWidth): the orchestrator passes no
\* viewportWidth, so "width < undefined * 0.003" is a comparison with NaN
\* and never filters.  Confidences are in thousandths.
StripPasses(s) ==
    LET width == s.right - s.left
        height == s.bottom - s.top
    IN  /\ ~ (height * 100 < Max(1200, height * 70))
        /\ s.confidence * 100 >= pmMinStripConfidenceSplit * 1000
        /\ width >= pmMinStripWidthPx
        /\ height > 0

filterStrips(strips) == SelectSeq(strips, StripPasses)

\* the strip coverage of the gap [gapLeft, gapRight] (lines 745-765)
RECURSIVE StripCoverage(_, _, _, _, _)
StripCoverage(strips, yTop, yBot, gapLeft, gapRight) ==
    IF strips = <<>> THEN 0
    ELSE LET s == Head(strips)
             rest == StripCoverage(Tail(strips), yTop, yBot, gapLeft, gapRight)
             gapWidth == gapRight - gapLeft
             stripHeight == s.bottom - s.top
             yOverlap == Min(yBot, s.bottom) - Max(yTop, s.top)
             stripInGap == Max(0, Min(s.right, gapRight) - Max(s.left, gapLeft))
         IN  IF s.confidence * 100 < pmMinStripConfidenceSplit * 1000 THEN rest
             ELSE IF s.right - s.left < pmMinStripWidthPx THEN rest
             ELSE IF yOverlap * 100 < pmMinStripOverlapFrac * stripHeight THEN rest
             ELSE IF stripInGap * 10 >= Max(30, gapWidth) THEN stripInGap + rest
             ELSE rest

sameColumnByStrips(a, b, strips) ==
    IF forceLinearMerge THEN TRUE
    ELSE LET horizontalOverlap == Max(0, Min(a.right, b.right) - Max(a.left, b.left))
             minW == Min(RectWidth(a), RectWidth(b))
             maxW == Max(RectWidth(a), RectWidth(b))
         IN
         IF strips = <<>>
         THEN /\ horizontalOverlap * 10 > minW * 3
              /\ Abs((a.left + a.right) - (b.left + b.right)) < maxW * 6
         ELSE LET yTop == Min(a.top, b.top)
                  yBot == Max(a.bottom, b.bottom)
                  leftPara == IF a.left < b.left THEN a ELSE b
                  rightPara == IF a.left < b.left THEN b ELSE a
                  gapLeft == leftPara.right
                  gapRight == rightPara.left
                  gapWidth == gapRight - gapLeft
              IN  IF yBot - yTop <= 0 THEN TRUE
                  ELSE IF horizontalOverlap * 10 > minW * 3 THEN TRUE
                  ELSE IF gapWidth <= 0 THEN TRUE
                  ELSE StripCoverage(strips, yTop, yBot, gapLeft, gapRight) * 100
                         < pmSameColumnCoverageRatio * gapWidth

\* Band geometry (y, height) is held in units of 1/BandDen pixel, the
\* denominator that makes lineHeight * bandMergeGapLineHeightMultiplier / 2
\* an integer; PxB turns pixels into band units.
BandDen == (200 * lineHeight.d)
             \div Gcd(lineHeight.n * bandMergeGapLineHeightMultiplier, 200 * lineHeight.d)
HalfGapB == (lineHeight.n * bandMergeGapLineHeightMultiplier)
             \div Gcd(lineHeight.n * bandMergeGapLineHeightMultiplier, 200 * lineHeight.d)
PxB(x) == x * BandDen

\* the band test that never finds a band
noHorizontalBandBetween(a, b, bands) == FALSE

hasHorizontalBandBetween(a, b, bands) ==
    IF forceLinearMerge THEN FALSE
    ELSE LET top == Min(a.bottom, b.bottom)
             bottom == Max(a.top, b.top)
         IN  \E k \in DOMAIN bands :
                /\ ~ (bands[k].confidence < 600)
                /\ bands[k].y > PxB(top)
                /\ bands[k].y + bands[k].height < PxB(bottom)

rectContains(a, b, tol) ==
    /\ a.left - tol <= b.left /\ a.right + tol >= b.right
    /\ a.top - tol <= b.top /\ a.bottom + tol >= b.bottom

area(r) == Max(0, RectWidth(r)) * Max(0, RectHeight(r))


----------------------------------------------------------------------------
(* ParagraphMerger stage 2: validateParagraphsAgainstStripsFromInfos *)

RectLeftLess(a, b) == a.left < b.left

\* processLineForColumnBoundaries: the gap centers of one line, doubled
\* ((prev.right + curr.left) / 2 is kept as prev.right + curr.left)
RECURSIVE LineBoundariesFrom(_, _)
LineBoundariesFrom(rects, i) ==
    IF i > Len(rects) THEN <<>>
    ELSE LET prev == rects[i - 1]
             curr == rects[i]
             gap == curr.left - prev.right
             minH == Min(RectHeight(prev), RectHeight(curr))
         IN  (IF /\ gap * 10000 > minH * 80 * pmSplitColumnGapTol
                 /\ gap * 10000 > minH * 80 * pmSplitInterWordGapTol
              THEN << prev.right + curr.left >> ELSE <<>>)
             \o LineBoundariesFrom(rects, i + 1)

processLineForColumnBoundaries(lineSpans) ==
    LineBoundariesFrom(SortBy(RectLeftLess, [k \in 1..Len(lineSpans) |-> Rect(lineSpans[k])]), 2)

\* the scan of lines 847-863: lineSpans is the current line, lineTop its top
RECURSIVE ColumnBoundariesFrom(_, _, _, _, _)
ColumnBoundariesFrom(sorted, i, lineTop, lineSpans, lh) ==
    LET flush == IF Len(lineSpans) > 1 THEN processLineForColumnBoundaries(lineSpans) ELSE <<>>
    IN  IF i > Len(sorted) THEN flush
        ELSE LET r == Rect(sorted[i]) IN
             IF i = 1 \/ Abs(r.top - lineTop) * 100 > lh * pmSplitLineHeightTol
             THEN flush \o ColumnBoundariesFrom(sorted, i + 1, r.top, << sorted[i] >>, lh)
             ELSE ColumnBoundariesFrom(sorted, i + 1, lineTop, Append(lineSpans, sorted[i]), lh)

\* lines 867-873, on doubled boundaries
RECURSIVE UniqueBoundariesFrom(_, _, _, _)
UniqueBoundariesFrom(bs, i, acc, lh) ==
    IF i > Len(bs) THEN acc
    ELSE IF (bs[i] - acc[Len(acc)]) * 100 > 2 * lh * pmSplitBoundaryDedupTol
         THEN UniqueBoundariesFrom(bs, i + 1, Append(acc, bs[i]), lh)
         ELSE UniqueBoundariesFrom(bs, i + 1, acc, lh)

\* the region (1-based) of a doubled center cx2 among doubled boundaries
RegionIndex(cx2, boundaries) ==
    LET n == Len(boundaries) - 1
        hits == { k \in 1..n : cx2 >= boundaries[k] /\ cx2 < boundaries[k + 1] }
    IN  IF hits # {} THEN CHOOSE k \in hits : \A m \in hits : k <= m
        ELSE IF cx2 < boundaries[1] THEN 1 ELSE n

\* the split that returns every bucket, the empty ones too
splitKeepingEmptyBuckets(paragraph, strips, lh) ==
    IF paragraph = <<>> \/ strips = <<>> THEN << paragraph >>
    ELSE LET paraBbox == getParaBbox(paragraph)
             sorted == SortTopLeft(paragraph)
             columnBoundaries == SortBy(IntLess, ColumnBoundariesFrom(sorted, 1, 0, <<>>, lh))
         IN  IF columnBoundaries = <<>> THEN << paragraph >>
             ELSE LET unique == UniqueBoundariesFrom(columnBoundaries, 2,
                                                     << columnBoundaries[1] >>, lh)
                      boundaries == << 2 * paraBbox.left >> \o unique \o << 2 * paraBbox.right >>
                      bucket(k) == SortTopLeft(SelectSeq(sorted,
                                     LAMBDA sp : RegionIndex(Rect(sp).left + Rect(sp).right,
                                                             boundaries) = k))
                      groups == [k \in 1..(Len(boundaries) - 1) |-> bucket(k)]
                  IN  IF Len(groups) > 1 THEN groups ELSE << paragraph >>

splitParagraphByStrips(paragraph, strips, lh) ==
    IF paragraph = <<>> \/ strips = <<>> THEN << paragraph >>
    ELSE LET paraBbox == getParaBbox(paragraph)
             sorted == SortTopLeft(paragraph)
             columnBoundaries == SortBy(IntLess, ColumnBoundariesFrom(sorted, 1, 0, <<>>, lh))
         IN  IF columnBoundaries = <<>> THEN << paragraph >>
             ELSE LET unique == UniqueBoundariesFrom(columnBoundaries, 2,
                                                     << columnBoundaries[1] >>, lh)
                      boundaries == << 2 * paraBbox.left >> \o unique \o << 2 * paraBbox.right >>
                      bucket(k) == SortTopLeft(SelectSeq(sorted,
                                     LAMBDA sp : RegionIndex(Rect(sp).left + Rect(sp).right,
                                                             boundaries) = k))
                      groups == SelectSeq([k \in 1..(Len(boundaries) - 1) |-> bucket(k)],
                                          LAMBDA b : b # <<>>)
                  IN  IF Len(groups) > 1 THEN groups ELSE << paragraph >>

\* stage 2 without the force-linear return of lines 197-199
splitAlsoWhenForced(paras, strips) ==
    IF strips = <<>> THEN paras
    ELSE LET filteredStrips == filterStrips(strips) IN
         IF filteredStrips = <<>> THEN paras
         ELSE FlattenSeq([k \in 1..Len(paras) |->
                            splitParagraphByStrips(paras[k], filteredStrips, 0)])

\* the orchestrator passes neither lineHeight (default 0) nor viewportWidth
validateParagraphsAgainstStripsFromInfos(paras, strips) ==
    IF forceLinearMerge THEN paras
    ELSE IF strips = <<>> THEN paras
    ELSE LET filteredStrips == filterStrips(strips) IN
         IF filteredStrips = <<>> THEN paras
         ELSE FlattenSeq([k \in 1..Len(paras) |->
                            splitParagraphByStrips(paras[k], filteredStrips, 0)])

----------------------------------------------------------------------------
(* ParagraphMerger stage 3: mergeParagraphsFromInfos *)

HorizontalOverlapStrong(a, b, frac) ==
    LET horizontalOverlap == a.left < b.right /\ a.right > b.left
        overlapWidth == Max(0, Min(a.right, b.right) - Max(a.left, b.left))
        minParaWidth == Max(1, Min(RectWidth(a), RectWidth(b)))
    IN  horizontalOverlap /\ overlapWidth * 100 > frac * minParaWidth

\* gap <= min(lineHeight * mult, maxFont * maxMult)
WithinMergeThreshold(gap, lh, mult, maxFont, maxMult) ==
    /\ gap * 100 * lh.d <= lh.n * mult
    /\ gap * 100 <= maxFont * maxMult

\* the test of lines 240-267 for the accumulated paragraph and paragraph next
generalMergeOk(currBbox, currStyle, next, lh, filteredStrips, bands) ==
    LET nextStyle == Style(next[1])
        nextBbox == getParaBbox(next)
        leftAlignTol == currStyle.fontSize * pmGeneralMergeAlignTol
        aligned == \/ Abs(currBbox.left - nextBbox.left) * 100 < leftAlignTol
                   \/ Abs(currBbox.right - nextBbox.right) * 100 < leftAlignTol
        overlapStrong == HorizontalOverlapStrong(currBbox, nextBbox, pmGeneralMergeOverlapFrac)
        permissiveAlignment == forceLinearMerge \/ aligned \/ overlapStrong
    IN  /\ stylesMatchStyle(currStyle, nextStyle)
        /\ sameColumnByStrips(currBbox, nextBbox, filteredStrips)
        /\ ~ hasHorizontalBandBetween(currBbox, nextBbox, bands)
        /\ WithinMergeThreshold(nextBbox.top - currBbox.bottom, lh,
                                pmGeneralMergeVerticalGapMultiplier,
                                Max(currStyle.fontSize, nextStyle.fontSize),
                                pmGeneralMergeVerticalGapMaxMultiplier)
        /\ permissiveAlignment

\* the inner loop over j: returns the accumulated paragraph and the used set
RECURSIVE MergeScan(_, _, _, _, _, _, _, _)
MergeScan(paras, j, current, used, currStyle, lh, filteredStrips, bands) ==
    IF j > Len(paras) THEN [current |-> current, used |-> used]
    ELSE IF j \in used
         THEN MergeScan(paras, j + 1, current, used, currStyle, lh, filteredStrips, bands)
         ELSE IF generalMergeOk(getParaBbox(current), currStyle, paras[j], lh,
                                filteredStrips, bands)
              THEN MergeScan(paras, j + 1, current \o paras[j], used \cup { j },
                             currStyle, lh, filteredStrips, bands)
              ELSE MergeScan(paras, j + 1, current, used, currStyle, lh, filteredStrips, bands)

RECURSIVE MergeFrom(_, _, _, _, _, _, _)
MergeFrom(paras, i, used, merged, lh, filteredStrips, bands) ==
    IF i > Len(paras) THEN merged
    ELSE IF i \in used THEN MergeFrom(paras, i + 1, used, merged, lh, filteredStrips, bands)
    ELSE LET r == MergeScan(paras, i + 1, paras[i], used, Style(paras[i][1]), lh,
                            filteredStrips, bands)
         IN  MergeFrom(paras, i + 1, r.used \cup { i }, Append(merged, r.current), lh,
                       filteredStrips, bands)

mergeParagraphsFromInfos(paras, lh, strips, bands) ==
    MergeFrom(paras, 1, {}, <<>>, lh, filterStrips(strips), bands)


----------------------------------------------------------------------------
(* ParagraphMerger stage 5 (step 7.5): mergeStackedColumnParagraphsFromInfos *)

\* PInfo of a paragraph: its spans, bounding box and the style of its first span
PInfo(spans) == [spans |-> spans, bbox |-> getParaBbox(spans), style |-> Style(spans[1])]

BboxTopLeftLess(a, b) ==
    \/ a.bbox.top < b.bbox.top
    \/ a.bbox.top = b.bbox.top /\ a.bbox.left < b.bbox.left

\* the stacked test without the refusal of a negative vertical gap
stackedMergeOkAnyGap(base, cand, lh, filteredStrips, bands) ==
    LET verticalGap == cand.bbox.top - base.bbox.bottom
        leftAlignTol == Max(100, Min(base.style.fontSize, cand.style.fontSize)
                                   * pmStackedMergeAlignTol)
        aligned == \/ Abs(base.bbox.left - cand.bbox.left) * 100 < leftAlignTol
                   \/ Abs(base.bbox.right - cand.bbox.right) * 100 < leftAlignTol
        overlapStrong == HorizontalOverlapStrong(base.bbox, cand.bbox, pmStackedMergeOverlapFrac)
        permissiveAlignment == forceLinearMerge \/ aligned \/ overlapStrong
    IN  /\ stylesMatchStyle(base.style, cand.style)
        /\ sameColumnByStrips(base.bbox, cand.bbox, filteredStrips)
        /\ ~ hasHorizontalBandBetween(base.bbox, cand.bbox, bands)
        /\ permissiveAlignment
        /\ WithinMergeThreshold(verticalGap, lh, pmStackedMergeVerticalGapMultiplier,
                                Max(base.style.fontSize, cand.style.fontSize),
                                pmStackedMergeVerticalGapMaxMultiplier)

\* the test of lines 324-347 for base and cand
stackedMergeOk(base, cand, lh, filteredStrips, bands) ==
    LET verticalGap == cand.bbox.top - base.bbox.bottom
        leftAlignTol == Max(100, Min(base.style.fontSize, cand.style.fontSize)
                                   * pmStackedMergeAlignTol)
        aligned == \/ Abs(base.bbox.left - cand.bbox.left) * 100 < leftAlignTol
                   \/ Abs(base.bbox.right - cand.bbox.right) * 100 < leftAlignTol
        overlapStrong == HorizontalOverlapStrong(base.bbox, cand.bbox, pmStackedMergeOverlapFrac)
        permissiveAlignment == forceLinearMerge \/ aligned \/ overlapStrong
    IN  /\ stylesMatchStyle(base.style, cand.style)
        /\ sameColumnByStrips(base.bbox, cand.bbox, filteredStrips)
        /\ ~ hasHorizontalBandBetween(base.bbox, cand.bbox, bands)
        /\ ~ (verticalGap < 0)
        /\ permissiveAlignment
        /\ WithinMergeThreshold(verticalGap, lh, pmStackedMergeVerticalGapMultiplier,
                                Max(base.style.fontSize, cand.style.fontSize),
                                pmStackedMergeVerticalGapMaxMultiplier)

stackedCombine(base, cand) ==
    LET combinedSpans == SortTopLeft(base.spans \o cand.spans) IN
    [spans |-> combinedSpans, bbox |-> getParaBbox(combinedSpans), style |-> base.style]

\* the inner loop looking at the next paragraph only
StackedScanAdjacent(infos, j, base, used, lh, filteredStrips, bands) ==
    IF j > Len(infos) \/ j \in used
       \/ ~ stackedMergeOk(base, infos[j], lh, filteredStrips, bands)
    THEN [base |-> base, used |-> used, merged |-> FALSE]
    ELSE [base |-> stackedCombine(base, infos[j]), used |-> used \cup { j }, merged |-> TRUE]

\* the inner loop that merges cand into base and leaves cand in the list
RECURSIVE StackedScanKeepingCand(_, _, _, _, _, _, _)
StackedScanKeepingCand(infos, j, base, used, lh, filteredStrips, bands) ==
    IF j > Len(infos) THEN [base |-> base, used |-> used, merged |-> FALSE]
    ELSE IF j \notin used /\ stackedMergeOk(base, infos[j], lh, filteredStrips, bands)
         THEN [StackedScanKeepingCand(infos, j + 1, stackedCombine(base, infos[j]), used,
                                      lh, filteredStrips, bands) EXCEPT !.merged = TRUE]
         ELSE StackedScanKeepingCand(infos, j + 1, base, used, lh, filteredStrips, bands)

\* the inner loop (lines 319-360): base after it, the indices used, and
\* whether it merged a paragraph into base
RECURSIVE StackedScan(_, _, _, _, _, _, _)
StackedScan(infos, j, base, used, lh, filteredStrips, bands) ==
    IF j > Len(infos) THEN [base |-> base, used |-> used, merged |-> FALSE]
    ELSE IF j \notin used /\ stackedMergeOk(base, infos[j], lh, filteredStrips, bands)
         THEN [StackedScan(infos, j + 1, stackedCombine(base, infos[j]), used \cup { j },
                           lh, filteredStrips, bands) EXCEPT !.merged = TRUE]
         ELSE StackedScan(infos, j + 1, base, used, lh, filteredStrips, bands)

\* the flag changed after one turn of the while loop
RECURSIVE StackedChangedFrom(_, _, _, _, _, _)
StackedChangedFrom(infos, i, used, lh, filteredStrips, bands) ==
    IF i > Len(infos) THEN FALSE
    ELSE IF i \in used
         THEN StackedChangedFrom(infos, i + 1, used, lh, filteredStrips, bands)
         ELSE LET r == StackedScan(infos, i + 1, infos[i], used, lh, filteredStrips, bands)
              IN  r.merged \/ StackedChangedFrom(infos, i + 1, r.used \cup { i },
                                                  lh, filteredStrips, bands)

\* one turn of the while loop (lines 312-367): the list out
RECURSIVE StackedPassFrom(_, _, _, _, _, _, _)
StackedPassFrom(infos, i, used, out, lh, filteredStrips, bands) ==
    IF i > Len(infos) THEN out
    ELSE IF i \in used
         THEN StackedPassFrom(infos, i + 1, used, out, lh, filteredStrips, bands)
         ELSE LET r == StackedScan(infos, i + 1, infos[i], used, lh, filteredStrips, bands)
              IN  StackedPassFrom(infos, i + 1, r.used \cup { i }, Append(out, r.base),
                                  lh, filteredStrips, bands)

stackedPass(infos, lh, filteredStrips, bands) ==
    StackedPassFrom(infos, 1, {}, <<>>, lh, filteredStrips, bands)

\* changed is set exactly when a pair merged, that is when out is shorter
RECURSIVE StackedLoop(_, _, _, _)
StackedLoop(infos, lh, filteredStrips, bands) ==
    LET out == stackedPass(infos, lh, filteredStrips, bands) IN
    IF Len(out) < Len(infos)
    THEN StackedLoop(SortBy(BboxTopLeftLess, out), lh, filteredStrips, bands)
    ELSE out

\* stage 5 on the list as it is given, without the sort of line 308
mergeStackedAsGiven(paras, lh, strips, bands) ==
    IF paras = <<>> THEN paras
    ELSE LET infos == [k \in 1..Len(paras) |-> PInfo(paras[k])]
             out == stackedPass(infos, lh, filterStrips(strips), bands)
         IN  [k \in 1..Len(out) |-> out[k].spans]

mergeStackedColumnParagraphsFromInfos(paras, lh, strips, bands) ==
    IF paras = <<>> THEN paras
    ELSE LET infos == SortBy(BboxTopLeftLess, [k \in 1..Len(paras) |-> PInfo(paras[k])])
             out == StackedLoop(infos, lh, filterStrips(strips), bands)
         IN  [k \in 1..Len(out) |-> out[k].spans]

----------------------------------------------------------------------------
(* ParagraphMerger stage 4: mergeNestedParagraphsOnceFromInfos *)

NInfo(p) == [spans |-> p, bbox |-> getParaBbox(p), style |-> Style(p[1]),
             isMath |-> \E k \in DOMAIN p : infoMap[p[k]].isMathElement,
             hasOp |-> \E k \in DOMAIN p : TextHasOperator(infoMap[p[k]].text)]

\* rectIntersection; width and height 0 stand for null
intersectionArea(a, b) ==
    LET left == Max(a.left, b.left)
        top == Max(a.top, b.top)
        right == Min(a.right, b.right)
        bottom == Min(a.bottom, b.bottom)
    IN  IF right <= left \/ bottom <= top THEN 0 ELSE (right - left) * (bottom - top)

isMathMergeCandidate(a, b, strips) ==
    LET fs == Max(a.style.fontSize, b.style.fontSize)
        fontSize == IF fs = 0 THEN 12 ELSE fs
        verticalProximity == Abs(a.bbox.top - b.bbox.top) * 100 < fontSize * pmMathMergeBaselineTol
        horizontalProximity == Abs(a.bbox.left - b.bbox.left) * 100 < fontSize * pmMathMergeHorizTol
        centerClose == Abs((a.bbox.left + a.bbox.right) - (b.bbox.left + b.bbox.right)) * 100
                         < 2 * fontSize * pmMathMergeCenterTol
    IN  IF ~ sameColumnByStrips(a.bbox, b.bbox, strips) THEN FALSE
        ELSE IF a.hasOp \/ b.hasOp THEN verticalProximity /\ horizontalProximity
        ELSE verticalProximity /\ centerClose

\* the test of lines 420-440 for base and cand
nestedMergeOk(base, cand, filteredStrips, bands) ==
    LET containsIJ == rectContains(base.bbox, cand.bbox, 1)
        containsJI == rectContains(cand.bbox, base.bbox, 1)
        smallerArea == Min(area(base.bbox), area(cand.bbox))
        smaller == IF smallerArea = 0 THEN 1 ELSE smallerArea
        strongOverlap == /\ ~ containsIJ /\ ~ containsJI
                         /\ intersectionArea(base.bbox, cand.bbox) * 100
                              > pmNestedMergeOverlapFrac * smaller
        mathMerge == (base.isMath \/ cand.isMath)
                     /\ isMathMergeCandidate(base, cand, filteredStrips)
    IN  /\ stylesMatchStyle(base.style, cand.style)
        /\ sameColumnByStrips(base.bbox, cand.bbox, filteredStrips)
        /\ ~ hasHorizontalBandBetween(base.bbox, cand.bbox, bands)
        /\ (containsIJ \/ containsJI \/ strongOverlap \/ mathMerge)

nestedCombine(base, cand) ==
    LET baseLarger == area(base.bbox) >= area(cand.bbox)
        keep == IF baseLarger THEN base ELSE cand
        add == IF baseLarger THEN cand ELSE base
    IN  SortTopLeft(keep.spans \o add.spans)

\* the first j (j # i, unused) that merges with infos[i]; 0 if none
NestedPartner(infos, i, used, filteredStrips, bands) ==
    LET js == { j \in 1..Len(infos) :
                  /\ j # i /\ j \notin used
                  /\ nestedMergeOk(infos[i], infos[j], filteredStrips, bands) }
    IN  IF js = {} THEN 0 ELSE CHOOSE j \in js : \A m \in js : j <= m

RECURSIVE NestedFrom(_, _, _, _, _, _)
NestedFrom(infos, i, used, out, filteredStrips, bands) ==
    IF i > Len(infos) THEN out
    ELSE IF i \in used THEN NestedFrom(infos, i + 1, used, out, filteredStrips, bands)
    ELSE LET j == NestedPartner(infos, i, used, filteredStrips, bands) IN
         IF j = 0
         THEN NestedFrom(infos, i + 1, used \cup { i }, Append(out, infos[i].spans),
                         filteredStrips, bands)
         ELSE NestedFrom(infos, i + 1, used \cup { i, j },
                         Append(out, nestedCombine(infos[i], infos[j])),
                         filteredStrips, bands)

\* [paragraphs, changed]; a pass changed something exactly when a pair merged
mergeNestedParagraphsOnceFromInfos(paras, strips, bands) ==
    IF paras = <<>> THEN [paragraphs |-> paras, changed |-> FALSE]
    ELSE LET out == NestedFrom([k \in 1..Len(paras) |-> NInfo(paras[k])], 1, {}, <<>>,
                               filterStrips(strips), bands)
         IN  [paragraphs |-> out, changed |-> Len(out) < Len(paras)]

----------------------------------------------------------------------------
(* ParagraphMerger step 8: stitchInlineLigaturesFromInfos *)

stitchOk(prevI, curI) ==
    LET minF == Min(prevI.style.fontSize, curI.style.fontSize)
        math == prevI.isMathElement \/ curI.isMathElement
        baseTol == minF * (IF math THEN pmStitchBaselineTolMath ELSE pmStitchBaselineTolNonMath)
        kernTol == minF * (IF math THEN pmStitchKernTolMath ELSE pmStitchKernTolNonMath)
        dx == curI.rect.left - prevI.rect.right
    IN  /\ stylesMatch(prevI, curI)
        /\ Abs(prevI.rect.bottom - curI.rect.bottom) * 100 < baseTol
        /\ dx >= 0 /\ dx * 100 < kernTol

\* stitched and group of lines 489-513
RECURSIVE StitchFrom(_, _, _, _)
StitchFrom(ordered, i, stitched, group) ==
    IF i > Len(ordered) THEN stitched \o group
    ELSE IF stitchOk(infoMap[ordered[i - 1]], infoMap[ordered[i]])
         THEN StitchFrom(ordered, i + 1, stitched, Append(group, ordered[i]))
         ELSE StitchFrom(ordered, i + 1, stitched \o group, << ordered[i] >>)

stitchParagraph(p) ==
    IF Len(p) < 2 THEN p
    ELSE LET ordered == SortTopLeft(p) IN StitchFrom(ordered, 2, <<>>, << ordered[1] >>)

stitchInlineLigaturesFromInfos(paras) ==
    [k \in 1..Len(paras) |-> stitchParagraph(paras[k])]


----------------------------------------------------------------------------
(* GapDetector (src/unnamed/part_001)                                      *)
(* The fragment catalogs keep every x coordinate even and the median       *)
(* height a multiple of 4, so that bandStep and the medians of lefts and   *)
(* rights are integers and the divisions below are exact.  Confidences are *)
(* in thousandths; a standard deviation is taken to one decimal.           *)

MIN_STRIP_CONFIDENCE == 600              \* thousandths
MIN_GAP_WIDTH_PX == 2
BAND_STEP_FACTOR == 75                   \* hundredths
MIN_STRIP_HEIGHT_FACTOR == 150           \* hundredths
CENTER_X_TOL_FACTOR == 50                \* hundredths
WIDTH_STABILITY_WEIGHT == 250            \* thousandths
CENTER_STABILITY_WEIGHT == 250           \* thousandths
COVERAGE_WEIGHT == 500                   \* thousandths

\* twice estimateAverageLineHeight
estimateAverageLineHeight2(rects) ==
    LET heights == SortBy(IntLess, SelectSeq([k \in 1..Len(rects) |-> RectHeight(rects[k])],
                                             LAMBDA h : h > 3))
    IN  IF rects = <<>> \/ heights = <<>> THEN 30 ELSE Median2(heights)

clamp01(x) == Max(0, Min(1000, x))

RECURSIVE SqrtSearch(_, _, _)
SqrtSearch(x, lo, hi) ==
    IF lo >= hi THEN lo
    ELSE LET mid == (lo + hi + 1) \div 2 IN
         IF mid * mid <= x THEN SqrtSearch(x, mid, hi) ELSE SqrtSearch(x, lo, mid - 1)

\* floor of the square root
ISqrt(x) == SqrtSearch(x, 0, 46340)

RECURSIVE SumSq(_)
SumSq(s) == IF s = <<>> THEN 0 ELSE Head(s) * Head(s) + SumSq(Tail(s))

\* ten times stddev(a) (sample standard deviation), rounded down
stddev10(a) ==
    LET n == Len(a) IN
    IF n <= 1 THEN 0
    ELSE ISqrt(((n * SumSq(a) - SumSeq(a) * SumSeq(a)) * 100) \div (n * (n - 1)))

\* occupied intervals merged left to right (lines 693-703)
RECURSIVE MergeOccupied(_, _)
MergeOccupied(occ, acc) ==
    IF occ = <<>> THEN acc
    ELSE LET o == Head(occ) IN
         IF acc = <<>> \/ o.left > acc[Len(acc)].right
         THEN MergeOccupied(Tail(occ), Append(acc, o))
         ELSE MergeOccupied(Tail(occ),
                [acc EXCEPT ![Len(acc)].right = Max(acc[Len(acc)].right, o.right)])

\* the gaps of one band (lines 705-716)
RECURSIVE InvertOccupied(_, _, _)
InvertOccupied(mergedOcc, cursor, page) ==
    IF mergedOcc = <<>>
    THEN IF page.right - cursor >= MIN_GAP_WIDTH_PX
         THEN << [left |-> cursor, right |-> page.right] >> ELSE <<>>
    ELSE LET m == Head(mergedOcc) IN
         (IF m.left - cursor >= MIN_GAP_WIDTH_PX
          THEN << [left |-> cursor, right |-> m.left] >> ELSE <<>>)
         \o InvertOccupied(Tail(mergedOcc), Max(cursor, m.right), page)

BandGaps(rects, page, y1, y2) ==
    LET active == SelectSeq(rects, LAMBDA r : r.bottom > y1 /\ r.top < y2) IN
    IF active = <<>> THEN << [left |-> page.left, right |-> page.right] >>
    ELSE InvertOccupied(
           MergeOccupied(SortBy(RectLeftLess,
                           [k \in 1..Len(active) |->
                               [left |-> active[k].left, right |-> active[k].right]]), <<>>),
           page.left, page)

\* the y-bands of the sweep (loop at line 679: y runs from page.top in steps
\* of bandStep while y < page.bottom), each with its gaps
SweepBands(rects, page, bandStep) ==
    LET count == (page.bottom - page.top + bandStep - 1) \div bandStep IN
    [k \in 1..count |->
        LET y == page.top + (k - 1) * bandStep
            y2 == Min(page.bottom, y + bandStep)
        IN  [y1 |-> y, y2 |-> y2, gaps |-> BandGaps(rects, page, y, y2)]]

\* a gap of the sweep with the band it was found in
SweepGaps(bands) ==
    FlattenSeq([b \in 1..Len(bands) |->
                  [n \in 1..Len(bands[b].gaps) |->
                      [left |-> bands[b].gaps[n].left, right |-> bands[b].gaps[n].right,
                       y1 |-> bands[b].y1, y2 |-> bands[b].y2]]])

\* the first cluster whose last center is within xTol; 0 if none.
\* centers are doubled, avgLine2 is twice avgLine.
ClusterFor(clusters, center2, avgLine2) ==
    LET near == { k \in 1..Len(clusters) :
                    LET last2 == clusters[k].centers[Len(clusters[k].centers)] IN
                    Abs(center2 - last2) * 100
                      <= Max(800, avgLine2 * CENTER_X_TOL_FACTOR) }
    IN  IF near = {} THEN 0 ELSE CHOOSE k \in near : \A m \in near : k <= m

\* lines 757-766
NewCluster(g) ==
    [centers |-> << g.left + g.right >>, widths |-> << g.right - g.left >>,
     lefts |-> << g.left >>, rights |-> << g.right >>,
     y1s |-> << g.y1 >>, y2s |-> << g.y2 >>]

\* lines 734-767: one gap joins the first cluster near it, or starts a cluster
AddGap(clusters, g, avgLine2) ==
    LET k == ClusterFor(clusters, g.left + g.right, avgLine2) IN
    IF g.right - g.left < MIN_GAP_WIDTH_PX THEN clusters
    ELSE IF k = 0 THEN Append(clusters, NewCluster(g))
    ELSE [clusters EXCEPT ![k] =
            [centers |-> Append(@.centers, g.left + g.right),
             widths |-> Append(@.widths, g.right - g.left),
             lefts |-> Append(@.lefts, g.left), rights |-> Append(@.rights, g.right),
             y1s |-> Append(@.y1s, g.y1), y2s |-> Append(@.y2s, g.y2)]]

\* lines 732-768: the clusters after the first n gaps of the sweep
RECURSIVE ClusterGaps(_, _, _)
ClusterGaps(gaps, n, avgLine2) ==
    IF n = 0 THEN <<>>
    ELSE LET clusters == ClusterGaps(gaps, n - 1, avgLine2) IN
         IF clusters = <<>> /\ gaps[n].right - gaps[n].left >= MIN_GAP_WIDTH_PX
         THEN << NewCluster(gaps[n]) >>
         ELSE AddGap(clusters, gaps[n], avgLine2)

SeqMin(s) == CHOOSE v \in Range(s) : \A w \in Range(s) : v <= w
SeqMax(s) == CHOOSE v \in Range(s) : \A w \in Range(s) : v >= w

\* lines 772-787: confidence of a cluster, in thousandths
stripConfidence(c, totalBands) ==
    LET coverage == (1000 * Cardinality(Range(c.y1s))) \div totalBands
        normWidthStd == (stddev10(c.widths) * 200)
                          \div Max(2, Median2(SortBy(IntLess, c.widths)))
        normCenterStd == (stddev10(c.centers) * 200)
                          \div Max(4, Median2(SortBy(IntLess, c.centers)))
    IN  clamp01((COVERAGE_WEIGHT * coverage
                 + WIDTH_STABILITY_WEIGHT * (1000 - clamp01(normWidthStd))
                 + CENTER_STABILITY_WEIGHT * (1000 - clamp01(normCenterStd))) \div 1000)

\* lines 757-792: the strip of a cluster, or none
ClusterStrip(c, totalBands, avgLine2) ==
    LET top == SeqMin(c.y1s)
        bottom == SeqMax(c.y2s)
        strip == [left |-> Median2(SortBy(IntLess, c.lefts)) \div 2,
                  right |-> Median2(SortBy(IntLess, c.rights)) \div 2,
                  top |-> top, bottom |-> bottom,
                  confidence |-> stripConfidence(c, totalBands)]
    IN  IF (bottom - top) * 200 < avgLine2 * MIN_STRIP_HEIGHT_FACTOR THEN <<>>
        ELSE IF strip.confidence >= MIN_STRIP_CONFIDENCE THEN << strip >>
        ELSE <<>>

StripCenterLess(a, b) == (a.left + a.right) < (b.left + b.right)

\* mergeSimilarStrips: cur is the strip being grown
RECURSIVE MergeSimilarFrom(_, _, _, _)
MergeSimilarFrom(sorted, i, cur, out) ==
    IF i > Len(sorted) THEN Append(out, cur)
    ELSE LET s == sorted[i]
             centersClose == Abs((cur.left + cur.right) - (s.left + s.right)) <= 2 * 3
             verticalOverlap == Min(cur.bottom, s.bottom) - Max(cur.top, s.top) > 0
         IN  IF centersClose /\ verticalOverlap
             THEN MergeSimilarFrom(sorted, i + 1,
                    [left |-> Min(cur.left, s.left), right |-> Max(cur.right, s.right),
                     top |-> Min(cur.top, s.top), bottom |-> Max(cur.bottom, s.bottom),
                     confidence |-> Max(cur.confidence, s.confidence)], out)
             ELSE MergeSimilarFrom(sorted, i + 1, s, Append(out, cur))

mergeSimilarStrips(strips) ==
    IF strips = <<>> THEN <<>>
    ELSE LET sorted == SortBy(StripCenterLess, strips) IN
         MergeSimilarFrom(sorted, 2, sorted[1], <<>>)

\* detectStripsAndBands: the vertical strips (horizontalBands is always empty)
detectStripsAndBands(rects, page, avgLine2) ==
    LET bandStep == Max(6, (avgLine2 * BAND_STEP_FACTOR) \div 200)
        bands == SweepBands(rects, page, bandStep)
        gaps == SweepGaps(bands)
        clusters == ClusterGaps(gaps, Len(gaps), avgLine2)
    IN  mergeSimilarStrips(
          FlattenSeq([k \in 1..Len(clusters) |-> ClusterStrip(clusters[k], Len(bands), avgLine2)]))

\* detectGapsFromRects(...).verticalStrips
detectGapsFromRects(rects, page) ==
    IF rects = <<>> THEN <<>>
    ELSE detectStripsAndBands(rects, page, estimateAverageLineHeight2(rects))


----------------------------------------------------------------------------
(* LayoutDetector helpers (src/processing.ts).  A band is [y, height,      *)
(* confidence] with y and height in units of 1/BandDen pixel and the       *)
(* confidence in thousandths.                                              *)

\* lines 634-637: the strips the pipeline keeps, ordered by center
keptStrips(stripsAll) ==
    SortBy(StripCenterLess,
           SelectSeq(stripsAll, LAMBDA s : s.confidence >= 10 * minStripConfidence
                                           /\ (s.right - s.left) >= minStripWidthPx))

\* lines 618-631: one band per horizontal grid line
gridBands(horizontalLines) ==
    [k \in 1..Len(horizontalLines) |->
        [y |-> PxB(horizontalLines[k]) - HalfGapB, height |-> 2 * HalfGapB,
         confidence |-> 950]]

BandYLess(a, b) == a.y < b.y

\* the coalescing that keeps the confidence of the first band of a run
RECURSIVE CoalesceFirstConfidence(_, _)
CoalesceFirstConfidence(out, merged) ==
    IF out = <<>> THEN merged
    ELSE LET b == Head(out) IN
         IF merged = <<>> THEN CoalesceFirstConfidence(Tail(out), << b >>)
         ELSE LET last == merged[Len(merged)]
                  lastBottom == last.y + last.height
              IN  IF b.y <= lastBottom + Max(PxB(bandMergeGapPx), 2 * HalfGapB)
                  THEN CoalesceFirstConfidence(Tail(out),
                         [merged EXCEPT ![Len(merged)] =
                            [y |-> last.y,
                             height |-> Max(lastBottom, b.y + b.height) - last.y,
                             confidence |-> last.confidence]])
                  ELSE CoalesceFirstConfidence(Tail(out), Append(merged, b))

\* lines 906-921
RECURSIVE CoalesceBands(_, _)
CoalesceBands(out, merged) ==
    IF out = <<>> THEN merged
    ELSE LET b == Head(out) IN
         IF merged = <<>> THEN CoalesceBands(Tail(out), << b >>)
         ELSE LET last == merged[Len(merged)]
                  lastBottom == last.y + last.height
              IN  IF b.y <= lastBottom + Max(PxB(bandMergeGapPx), 2 * HalfGapB)
                  THEN CoalesceBands(Tail(out),
                         [merged EXCEPT ![Len(merged)] =
                            [y |-> last.y,
                             height |-> Max(lastBottom, b.y + b.height) - last.y,
                             confidence |-> Max(last.confidence, b.confidence)]])
                  ELSE CoalesceBands(Tail(out), Append(merged, b))

\* lines 891-904: the bands inferred from the strips' extents
inferredBands(strips, page) ==
    IF strips = <<>> THEN <<>>
    ELSE LET minTop == SeqMin([k \in 1..Len(strips) |-> strips[k].top])
             maxBottom == SeqMax([k \in 1..Len(strips) |-> strips[k].bottom])
             \* d > lineHeight * bandTopBottomThresholdMultiplier, d in pixels
             beyond(d) == d * 100 * lineHeight.d
                            > lineHeight.n * bandTopBottomThresholdMultiplier
         IN  (IF beyond(minTop - page.top)
              THEN << [y |-> PxB(page.top), height |-> PxB(minTop - page.top),
                       confidence |-> settings.inferredBandConfidence] >>
              ELSE <<>>)
             \o
             (IF beyond(page.bottom - maxBottom)
              THEN << [y |-> PxB(maxBottom), height |-> PxB(page.bottom - maxBottom),
                       confidence |-> settings.inferredBandConfidence] >>
              ELSE <<>>)

buildLayoutBands(bands, strips, page) ==
    CoalesceBands(SortBy(BandYLess, bands \o inferredBands(strips, page)), <<>>)

\* buildColumnRegionsFromStrips; x coordinates doubled
RECURSIVE RegionEdges(_, _)
RegionEdges(sorted, xs) ==
    IF sorted = <<>> THEN xs
    ELSE LET mid2 == Head(sorted).left + Head(sorted).right IN
         RegionEdges(Tail(sorted), IF mid2 > xs[Len(xs)] THEN Append(xs, mid2) ELSE xs)

buildColumnRegionsFromStrips(strips, page) ==
    IF strips = <<>> THEN << [left |-> 2 * page.left, right |-> 2 * page.right] >>
    ELSE LET xs == Append(RegionEdges(SortBy(StripCenterLess, strips), << 2 * page.left >>),
                          2 * page.right)
         IN  FlattenSeq([k \in 1..(Len(xs) - 1) |->
                 IF xs[k + 1] - xs[k] > 2 * minRegionWidth
                 THEN << [left |-> xs[k], right |-> xs[k + 1]] >> ELSE <<>>])

buildPerBandColumnRegions(strips, page, bands) ==
    [k \in 1..Len(bands) |->
        LET top == bands[k].y
            bottom == bands[k].y + bands[k].height
            bandStrips == SelectSeq(strips, LAMBDA st :
                LET yOverlap == Min(bottom, PxB(st.bottom)) - Max(top, PxB(st.top))
                    stripH == PxB(st.bottom - st.top)
                IN  yOverlap > 0
                    /\ yOverlap * 100
                         >= minOverlapFracForBand * Max(BandDen, Max(stripH, bottom - top)))
        IN  [band |-> [top |-> top, bottom |-> bottom],
             regions |-> buildColumnRegionsFromStrips(bandStrips, page)]]

\* a/b < c/d for non-negative a, c and positive b, d, by continued fractions
RECURSIVE RatioLess(_, _, _, _)
RatioLess(a, b, c, d) ==
    LET qa == a \div b
        qc == c \div d
        ra == a % b
        rc == c % d
    IN  IF qa # qc THEN qa < qc
        ELSE IF rc = 0 THEN FALSE
        ELSE IF ra = 0 THEN TRUE
        ELSE RatioLess(d, rc, b, ra)

\* lines 987-1019: the band bucket of a span
BandOf(i, perBandRegions) ==
    LET r == Rect(i)
        yOverlap(k) == Min(PxB(r.bottom), perBandRegions[k].band.bottom)
                         - Max(PxB(r.top), perBandRegions[k].band.top)
        denom(k) == Max(BandDen, Max(PxB(r.bottom - r.top),
                        perBandRegions[k].band.bottom - perBandRegions[k].band.top))
        over == { k \in 1..Len(perBandRegions) : yOverlap(k) > 0 }
        best == { k \in over : \A m \in over :
                    ~ RatioLess(yOverlap(k), denom(k), yOverlap(m), denom(m)) }
        dist(k) == Abs(PxB(r.top + r.bottom)
                        - (perBandRegions[k].band.top + perBandRegions[k].band.bottom))
        nearest == { k \in 1..Len(perBandRegions) :
                       \A m \in 1..Len(perBandRegions) : dist(k) <= dist(m) }
    IN  IF over # {} THEN CHOOSE k \in best : \A m \in best : k <= m
        ELSE CHOOSE k \in nearest : \A m \in nearest : k <= m

\* lines 1027-1035: the column bucket of a span; no region means one unbounded region
ColumnOf(i, regions) ==
    LET cx2 == Rect(i).left + Rect(i).right
        hit == { k \in 1..Len(regions) : cx2 >= regions[k].left /\ cx2 < regions[k].right }
    IN  IF regions = <<>> THEN 1
        ELSE IF hit # {} THEN CHOOSE k \in hit : \A m \in hit : k <= m
        ELSE IF cx2 < regions[1].left THEN 1 ELSE Len(regions)

\* lines 1022-1055: the order of one band bucket
orderBucket(spans, regions) ==
    LET ncols == Max(1, Len(regions))
        colBuckets == [c \in 1..ncols |-> SelectSeq(spans, LAMBDA i : ColumnOf(i, regions) = c)]
    IN  IF Cardinality({ c \in 1..ncols : colBuckets[c] # <<>> }) <= 1
        THEN SortTopLeft(spans)
        ELSE FlattenSeq([c \in 1..ncols |-> SortTopLeft(colBuckets[c])])

orderParagraphByBandsAndColumns(paragraph, perBandRegions) ==
    IF paragraph = <<>> THEN paragraph
    ELSE LET ordered ==
                FlattenSeq([k \in 1..Len(perBandRegions) |->
                    LET bucket == SelectSeq(paragraph,
                                            LAMBDA i : BandOf(i, perBandRegions) = k)
                    IN  IF bucket = <<>> THEN <<>>
                        ELSE orderBucket(bucket, perBandRegions[k].regions)])
         IN  IF ordered # <<>> THEN ordered ELSE paragraph

\* deduplicateParagraphs
RECURSIVE UniqueSpans(_, _, _)
UniqueSpans(paragraph, seen, acc) ==
    IF paragraph = <<>> THEN acc
    ELSE IF Head(paragraph) \in seen \/ Head(paragraph) \in Range(acc)
         THEN UniqueSpans(Tail(paragraph), seen, acc)
         ELSE UniqueSpans(Tail(paragraph), seen, Append(acc, Head(paragraph)))

RECURSIVE DedupFrom(_, _, _)
DedupFrom(paras, globalSeen, uniqueParagraphs) ==
    IF paras = <<>> THEN uniqueParagraphs
    ELSE LET uniqueSpans == UniqueSpans(Head(paras), globalSeen, <<>>) IN
         DedupFrom(Tail(paras), globalSeen \cup Range(uniqueSpans),
                   IF uniqueSpans # <<>> THEN Append(uniqueParagraphs, uniqueSpans)
                   ELSE uniqueParagraphs)

deduplicateParagraphs(paras) == DedupFrom(paras, {}, <<>>)


----------------------------------------------------------------------------
(* Inputs of detectLayout: a page and its text fragments *)

MaxFrags == 3

\* the rectangles of the catalog: two columns (L, R), three rows, two narrow
\* fragments on the first row (A, B), one tall fragment (T) and one wide
\* fragment on the second row (W)
RectL1 == [left |-> 10, top |-> 6,  right |-> 50,  bottom |-> 18]
RectR1 == [left |-> 70, top |-> 6,  right |-> 110, bottom |-> 18]
RectL2 == [left |-> 10, top |-> 22, right |-> 50,  bottom |-> 34]
RectL3 == [left |-> 10, top |-> 40, right |-> 50,  bottom |-> 52]
RectA1 == [left |-> 10, top |-> 6,  right |-> 20,  bottom |-> 18]
RectB1 == [left |-> 30, top |-> 6,  right |-> 40,  bottom |-> 18]
RectT  == [left |-> 10, top |-> 8,  right |-> 50,  bottom |-> 68]
RectW2 == [left |-> 10, top |-> 22, right |-> 88,  bottom |-> 34]

BaseStyle == [fontFamily |-> "Arial", fontSize |-> 10, fontWeight |-> 400,
              fontStyle |-> "normal", colorRGB |-> << 0, 0, 0 >>]

BoldStyle == [BaseStyle EXCEPT !.fontWeight = 900]

\* buildSnapshot: the SpanInfo of one span
SpanInfoOf(rect, style, text) ==
    [rect |-> rect, style |-> style, text |-> text,
     isMathElement |-> isMathElementText(text, style.fontFamily)]

\* the spans a page is made of
Catalog ==
    << SpanInfoOf(RectL1, BaseStyle, "word"),
       SpanInfoOf(RectL1, BaseStyle, "co-"),
       SpanInfoOf(RectR1, BaseStyle, "word"),
       SpanInfoOf(RectR1, BoldStyle, "word"),
       SpanInfoOf(RectL2, BaseStyle, "word"),
       SpanInfoOf(RectL2, BoldStyle, "word"),
       SpanInfoOf(RectL3, BaseStyle, "word"),
       SpanInfoOf(RectL3, BoldStyle, "word"),
       SpanInfoOf(RectA1, BaseStyle, "alpha"),
       SpanInfoOf(RectB1, BaseStyle, "alpha"),
       SpanInfoOf(RectT, BaseStyle, "word"),
       SpanInfoOf(RectW2, BaseStyle, "word") >>

\* a set of numbers as an ascending sequence
RECURSIVE SetToSeq(_)
SetToSeq(S) ==
    IF S = {} THEN <<>>
    ELSE LET m == CHOOSE v \in S : \A w \in S : v <= w IN << m >> \o SetToSeq(S \ {m})

\* buildSnapshot over the spans S of the catalog, in document order
buildSnapshot(S, catalog) ==
    LET order == SetToSeq(S) IN [k \in 1..Len(order) |-> catalog[order[k]]]

DefaultSettings ==
    [pmForceLinearMerge |-> FALSE, maxIterMerges |-> maxIterMergesDefault,
     inferredBandConfidence |-> 10 * inferredBandConfidence]

\* the configurations explored: the defaults, the force-linear policy, and a
\* hand-edited configuration (the settings form accepts any number)
SettingsVariants ==
    { DefaultSettings,
      [DefaultSettings EXCEPT !.pmForceLinearMerge = TRUE],
      [DefaultSettings EXCEPT !.maxIterMerges = 1, !.inferredBandConfidence = 1500] }

PageRects == { [left |-> 0, top |-> 0, right |-> 120, bottom |-> 72] }

\* GridDetector.detectGrid(...).horizontalLines: positions of page-wide
\* whitespace rows.  The detector reports no line, the gutter between the
\* second and third row, or the head and foot gutters of the page.
GridOutcomes == { <<>>, << 37 >>, << 4, 70 >> }

\* the outcomes whose lines lie inside the page and cross no fragment
whitespaceLines(outcomes, rects, page) ==
    { lines \in outcomes :
        \A n \in 1..Len(lines) :
            /\ page.top < lines[n] /\ lines[n] < page.bottom
            /\ \A k \in 1..Len(rects) : rects[k].bottom <= lines[n] \/ rects[k].top >= lines[n] }

detectGrid(rects, page) == whitespaceLines(GridOutcomes, rects, page)

AllRects == [k \in 1..Len(infoMap) |-> infoMap[k].rect]

\* segmentVerticalLayouts is not called by detectLayout
NoCall == [pc |-> "idle"]

\* a single invocation of detectLayout: no record of earlier calls
NoCalls == [k |-> 0]

\* no bulk translation modal exists
NoModal == [pc |-> "none"]

\* the rest of the plugin is not running
NoPlugin == [pc |-> "none"]

Idle == [stripsAll |-> <<>>, horizontalLines |-> <<>>, changed |-> FALSE, banded |-> <<>>]

Init ==
    /\ \E S \in SUBSET (1..Len(Catalog)) :
         /\ Cardinality(S) <= MaxFrags
         /\ infoMap = buildSnapshot(S, Catalog)
    /\ pageRect \in PageRects
    /\ settings \in SettingsVariants
    /\ pc = "start"
    /\ paragraphs = <<>>
    /\ lineHeight = [n |-> 16, d |-> 1]
    /\ verticalStrips = <<>>
    /\ layoutBands = <<>>
    /\ guard = 0
    /\ nestedPasses = 0
    /\ aux = Idle
    /\ region = NoCall
    /\ calls = NoCalls
    /\ bulk = NoModal
    /\ plugin = NoPlugin


----------------------------------------------------------------------------
(* LayoutDetector.detectLayout, one action per numbered step *)

\* steps 2 and 3: initial grouping, line height
Group ==
    /\ pc = "start"
    /\ paragraphs' = mergeIntoParagraphsFromInfos
    /\ lineHeight' = estimateLineHeightFromInfos(paragraphs')
    /\ pc' = "detect"
    /\ UNCHANGED << region, calls, bulk, plugin, infoMap, pageRect, settings, verticalStrips, layoutBands, guard,
                    nestedPasses, aux >>

\* lines 618-645: strip filter and layout bands from the detectors' results
DetectWith(stripsAll, horizontalLines) ==
    /\ verticalStrips' = keptStrips(stripsAll)
    /\ layoutBands' = buildLayoutBands(gridBands(horizontalLines), verticalStrips', pageRect)
    /\ aux' = [aux EXCEPT !.stripsAll = stripsAll, !.horizontalLines = horizontalLines]
    /\ pc' = "validate"
    /\ UNCHANGED << region, calls, bulk, plugin, infoMap, pageRect, settings, paragraphs, lineHeight, guard, nestedPasses >>

\* steps 4 and 4.5: gap detection, grid detection, strip filter, layout bands
Detect ==
    /\ pc = "detect"
    /\ \E horizontalLines \in detectGrid(AllRects, pageRect) :
         DetectWith(detectGapsFromRects(AllRects, pageRect), horizontalLines)

\* step 5
Validate ==
    /\ pc = "validate"
    /\ paragraphs' = validateParagraphsAgainstStripsFromInfos(paragraphs, verticalStrips)
    /\ pc' = "merge"
    /\ UNCHANGED << region, calls, bulk, plugin, infoMap, pageRect, settings, lineHeight, verticalStrips, layoutBands,
                    guard, nestedPasses, aux >>

\* step 6
Merge ==
    /\ pc = "merge"
    /\ paragraphs' = mergeParagraphsFromInfos(paragraphs, lineHeight, verticalStrips, layoutBands)
    /\ pc' = "nested"
    /\ UNCHANGED << region, calls, bulk, plugin, infoMap, pageRect, settings, lineHeight, verticalStrips, layoutBands,
                    guard, nestedPasses, aux >>

\* the nested pass of a loop without the iteration cap
NestedPassUncapped ==
    /\ pc = "nested"
    /\ guard' = guard + 1
    /\ nestedPasses' = nestedPasses + 1
    /\ LET once == mergeNestedParagraphsOnceFromInfos(paragraphs, verticalStrips, layoutBands) IN
         /\ paragraphs' = once.paragraphs
         /\ aux' = [aux EXCEPT !.changed = once.changed]
         /\ pc' = IF once.changed THEN "revalidate" ELSE "stacked"
    /\ UNCHANGED << region, calls, bulk, plugin, infoMap, pageRect, settings, lineHeight, verticalStrips, layoutBands >>

\* step 7, loop test true: one nested pass; break when nothing changed
NestedPass ==
    /\ pc = "nested"
    /\ guard < settings.maxIterMerges
    /\ guard' = guard + 1
    /\ nestedPasses' = nestedPasses + 1
    /\ LET once == mergeNestedParagraphsOnceFromInfos(paragraphs, verticalStrips, layoutBands) IN
         /\ paragraphs' = once.paragraphs
         /\ aux' = [aux EXCEPT !.changed = once.changed]
         /\ pc' = IF once.changed THEN "revalidate" ELSE "stacked"
    /\ UNCHANGED << region, calls, bulk, plugin, infoMap, pageRect, settings, lineHeight, verticalStrips, layoutBands >>

\* step 7, loop test false
LoopExit ==
    /\ pc = "nested"
    /\ ~ (guard < settings.maxIterMerges)
    /\ guard' = guard + 1
    /\ pc' = "stacked"
    /\ UNCHANGED << region, calls, bulk, plugin, infoMap, pageRect, settings, paragraphs, lineHeight, verticalStrips,
                    layoutBands, nestedPasses, aux >>

\* step 7, lines 680-684
Revalidate ==
    /\ pc = "revalidate"
    /\ paragraphs' = validateParagraphsAgainstStripsFromInfos(paragraphs, verticalStrips)
    /\ pc' = "remerge"
    /\ UNCHANGED << region, calls, bulk, plugin, infoMap, pageRect, settings, lineHeight, verticalStrips, layoutBands,
                    guard, nestedPasses, aux >>

\* step 7, lines 686-692
Remerge ==
    /\ pc = "remerge"
    /\ paragraphs' = mergeParagraphsFromInfos(paragraphs, lineHeight, verticalStrips, layoutBands)
    /\ pc' = "nested"
    /\ UNCHANGED << region, calls, bulk, plugin, infoMap, pageRect, settings, lineHeight, verticalStrips, layoutBands,
                    guard, nestedPasses, aux >>

\* step 7.5
FinalStacked ==
    /\ pc = "stacked"
    /\ paragraphs' = mergeStackedColumnParagraphsFromInfos(paragraphs, lineHeight,
                                                           verticalStrips, layoutBands)
    /\ pc' = "stitch"
    /\ UNCHANGED << region, calls, bulk, plugin, infoMap, pageRect, settings, lineHeight, verticalStrips, layoutBands,
                    guard, nestedPasses, aux >>

\* step 8
Stitch ==
    /\ pc = "stitch"
    /\ paragraphs' = stitchInlineLigaturesFromInfos(paragraphs)
    /\ pc' = "order"
    /\ UNCHANGED << region, calls, bulk, plugin, infoMap, pageRect, settings, lineHeight, verticalStrips, layoutBands,
                    guard, nestedPasses, aux >>

\* step 8.5
Order ==
    /\ pc = "order"
    /\ paragraphs' =
         IF layoutBands # <<>>
         THEN LET perBandColumnRegions ==
                      buildPerBandColumnRegions(verticalStrips, pageRect, layoutBands)
              IN  [k \in 1..Len(paragraphs) |->
                      orderParagraphByBandsAndColumns(paragraphs[k], perBandColumnRegions)]
         ELSE paragraphs
    /\ aux' = [aux EXCEPT !.banded = paragraphs']
    /\ pc' = "sort"
    /\ UNCHANGED << region, calls, bulk, plugin, infoMap, pageRect, settings, lineHeight, verticalStrips, layoutBands,
                    guard, nestedPasses >>

\* step 9 left out
keepSpanOrder(paras) == paras

\* lines 716-722: every paragraph sorted by (top, left)
sortParagraphSpans(paras) == [k \in 1..Len(paras) |-> SortTopLeft(paras[k])]

\* step 9
SortSpans ==
    /\ pc = "sort"
    /\ paragraphs' = sortParagraphSpans(paragraphs)
    /\ pc' = "dedup"
    /\ UNCHANGED << region, calls, bulk, plugin, infoMap, pageRect, settings, lineHeight, verticalStrips, layoutBands,
                    guard, nestedPasses, aux >>

\* step 9.5; the paragraphs are then returned
Dedup ==
    /\ pc = "dedup"
    /\ paragraphs' = deduplicateParagraphs(paragraphs)
    /\ pc' = "done"
    /\ UNCHANGED << region, calls, bulk, plugin, infoMap, pageRect, settings, lineHeight, verticalStrips, layoutBands,
                    guard, nestedPasses, aux >>

Next ==
    \/ Group \/ Detect \/ Validate \/ Merge
    \/ NestedPass \/ LoopExit \/ Revalidate \/ Remerge
    \/ FinalStacked \/ Stitch \/ Order \/ SortSpans \/ Dedup

Spec == Init /\ [][Next]_vars

\* the positions of detectLayout
PcValues == { "start", "detect", "validate", "merge", "nested", "revalidate", "remerge",
              "stacked", "stitch", "order", "sort", "dedup", "done" }

\* detectLayout is straight-line synchronous code without awaits: until it
\* has returned, control moves on to another position
Advance == pc # "done" /\ pc' \in PcValues \ { pc }

FairSpec == Spec /\ WF_pc(Advance)

----------------------------------------------------------------------------
(* Several invocations of detectLayout on one LayoutDetector.  A page is   *)
(* its fragments together with what the grid detector reports for them.    *)

\* the fragments of the pages invoked, as indexes into the catalog
SeqFragments == { {9, 10}, {1, 3}, {1, 5}, {1, 3, 12}, {5, 11} }

RectsOf(infos) == [k \in 1..Len(infos) |-> infos[k].rect]

SeqPages ==
    { p \in [spans : SeqFragments, horizontalLines : GridOutcomes] :
        \E page \in PageRects :
            p.horizontalLines \in detectGrid(RectsOf(buildSnapshot(p.spans, Catalog)), page) }

\* the locals of detectLayout without a fresh loop counter: guard kept as if
\* it were a member of the detector
InvokeKeepingGuard(page) ==
    /\ infoMap' = buildSnapshot(page.spans, Catalog)
    /\ pc' = "start"
    /\ paragraphs' = <<>>
    /\ lineHeight' = [n |-> 16, d |-> 1]
    /\ verticalStrips' = <<>>
    /\ layoutBands' = <<>>
    /\ nestedPasses' = 0
    /\ aux' = Idle
    /\ UNCHANGED << guard, pageRect, settings, region, bulk, plugin >>

\* detectLayout is entered: the snapshot is built and every local, the loop
\* counter of step 7 included, is declared afresh; this.settings is readonly
Invoke(page) ==
    /\ infoMap' = buildSnapshot(page.spans, Catalog)
    /\ pc' = "start"
    /\ paragraphs' = <<>>
    /\ lineHeight' = [n |-> 16, d |-> 1]
    /\ verticalStrips' = <<>>
    /\ layoutBands' = <<>>
    /\ guard' = 0
    /\ nestedPasses' = 0
    /\ aux' = Idle
    /\ UNCHANGED << pageRect, settings, region, bulk, plugin >>

InitSeq ==
    /\ pageRect \in PageRects
    /\ settings \in SettingsVariants
    /\ \E A \in SeqPages, B \in SeqPages :
         /\ calls = [pages |-> << A, B, A >>, k |-> 1, returned |-> <<>>, config |-> settings]
         /\ infoMap = buildSnapshot(A.spans, Catalog)
    /\ pc = "start"
    /\ paragraphs = <<>>
    /\ lineHeight = [n |-> 16, d |-> 1]
    /\ verticalStrips = <<>>
    /\ layoutBands = <<>>
    /\ guard = 0
    /\ nestedPasses = 0
    /\ aux = Idle
    /\ region = NoCall
    /\ bulk = NoModal
    /\ plugin = NoPlugin

\* steps 4 and 4.5 on the page of the current call
DetectSeq ==
    /\ pc = "detect"
    /\ DetectWith(detectGapsFromRects(AllRects, pageRect), calls.pages[calls.k].horizontalLines)

\* detectLayout returns its paragraphs; the caller invokes it for the next page
Return ==
    /\ pc = "done"
    /\ calls.k <= Len(calls.pages)
    /\ calls' = [calls EXCEPT !.returned = Append(@, paragraphs), !.k = @ + 1]
    /\ IF calls.k < Len(calls.pages)
         THEN Invoke(calls.pages[calls.k + 1])
         ELSE UNCHANGED << infoMap, pageRect, settings, pc, paragraphs, lineHeight,
                           verticalStrips, layoutBands, guard, nestedPasses, aux, region, bulk, plugin >>

NextSeq ==
    \/ Group \/ DetectSeq \/ Validate \/ Merge
    \/ NestedPass \/ LoopExit \/ Revalidate \/ Remerge
    \/ FinalStacked \/ Stitch \/ Order \/ SortSpans \/ Dedup \/ Return

SpecSeq == InitSeq /\ [][NextSeq]_vars

----------------------------------------------------------------------------
(* detectLayout with simulated detectors: the gap detector and the grid    *)
(* detector are replaced by stubs that report a given column strip and a   *)
(* given gutter, on a page 600 wide.                                        *)

SimPage == [left |-> 0, top |-> 0, right |-> 600, bottom |-> 300]

SimStyle(size) == [BaseStyle EXCEPT !.fontSize = size]

\* a style that matches no other: family, weight and colour differ
OtherStyle(size) ==
    [fontFamily |-> "Times", fontSize |-> size, fontWeight |-> 900,
     fontStyle |-> "italic", colorRGB |-> << 200, 0, 0 >>]

\* rows of a two-column page: the y-range and the font sizes and texts on it
SimRows ==
    { [top |-> 20, bottom |-> 34, sizes |-> { 12 }, texts |-> { "word" }],
      [top |-> 20, bottom |-> 164, sizes |-> { 66, 67, 120 }, texts |-> { "word", "=" }],
      [top |-> 20, bottom |-> 40, sizes |-> { 67 }, texts |-> { "=" }] }

\* two fragments at the same y-range, at x in [10,270] and x in [330,590]
TwoColumnScenes ==
    UNION { { << SpanInfoOf([left |-> 10, top |-> row.top, right |-> 270,
                             bottom |-> row.bottom], SimStyle(s1), t),
                 SpanInfoOf([left |-> 330, top |-> row.top, right |-> 590,
                             bottom |-> row.bottom], SimStyle(s2), t) >> :
              s1 \in row.sizes, s2 \in row.sizes, t \in row.texts } : row \in SimRows }

SimGaps == { 4, 20, 30 }

\* a fragment 14 high whose top is gap below the bottom y
Below(y, gap, x, style) ==
    SpanInfoOf([left |-> x, top |-> y + gap, right |-> x + 260, bottom |-> y + gap + 14],
               style, "word")

\* two or three fragments one below the other, the second in either column
StackedScenes ==
    UNION { { << Below(6, 14, 10, SimStyle(12)), Below(34, g1, x, st) >>,
              << Below(6, 14, 10, SimStyle(12)), Below(34, g1, x, st),
                 Below(34 + g1 + 14, g2, 10, SimStyle(12)) >> } :
            g1 \in SimGaps, g2 \in SimGaps, x \in { 10, 330 },
            st \in { SimStyle(12), OtherStyle(12) } }

\* two Greek letters on one line
MathScene ==
    << SpanInfoOf([left |-> 10, top |-> 20, right |-> 20, bottom |-> 32], BaseStyle, "alpha"),
       SpanInfoOf([left |-> 30, top |-> 20, right |-> 40, bottom |-> 32], BaseStyle, "alpha") >>

\* two operators on one line of the left column, 60 apart
LeftColumnScene ==
    << SpanInfoOf([left |-> 10, top |-> 20, right |-> 100, bottom |-> 40], SimStyle(67), "="),
       SpanInfoOf([left |-> 160, top |-> 20, right |-> 270, bottom |-> 40], SimStyle(67), "=") >>

\* a fragment of the left column, one of the right column just below it,
\* and a fragment further down that overlaps both columns without sharing
\* an edge with either; in the second scene a fragment of another style
\* stands beside the first
OverlapScene ==
    << SpanInfoOf([left |-> 10, top |-> 20, right |-> 270, bottom |-> 34], SimStyle(12), "word"),
       SpanInfoOf([left |-> 330, top |-> 38, right |-> 590, bottom |-> 52], SimStyle(12), "word"),
       SpanInfoOf([left |-> 100, top |-> 56, right |-> 500, bottom |-> 70], SimStyle(12), "word") >>

OverlapSceneWithAside ==
    << OverlapScene[1],
       SpanInfoOf([left |-> 330, top |-> 20, right |-> 590, bottom |-> 34], OtherStyle(12), "word"),
       OverlapScene[2], OverlapScene[3] >>

\* two lines of two operators each, set in a large font; the gap of the
\* first line is at x in [100,160], the gap of the second at x in [200,260]
StaggeredScene ==
    << SpanInfoOf([left |-> 10, top |-> 20, right |-> 100, bottom |-> 40], SimStyle(120), "="),
       SpanInfoOf([left |-> 160, top |-> 20, right |-> 590, bottom |-> 40], SimStyle(120), "="),
       SpanInfoOf([left |-> 10, top |-> 44, right |-> 200, bottom |-> 64], SimStyle(120), "="),
       SpanInfoOf([left |-> 260, top |-> 44, right |-> 590, bottom |-> 64], SimStyle(120), "=") >>

\* a heading in another style at x in [100,150] and, right of it, the first
\* line of a paragraph whose second line starts further left, at x = 50
SkewedScene ==
    << SpanInfoOf([left |-> 100, top |-> 20, right |-> 150, bottom |-> 34], OtherStyle(12), "word"),
       SpanInfoOf([left |-> 200, top |-> 20, right |-> 270, bottom |-> 34], SimStyle(12), "word"),
       SpanInfoOf([left |-> 50, top |-> 38, right |-> 270, bottom |-> 52], SimStyle(12), "word") >>

SimScenes ==
    TwoColumnScenes \cup StackedScenes
       \cup { MathScene, LeftColumnScene, OverlapScene, OverlapSceneWithAside, StaggeredScene,
               SkewedScene }

\* the stub gap detector: no strip, or one strip at x in [280,320]
SimStrips ==
    { <<>> } \cup
    { << [left |-> 280, right |-> 320, top |-> 0, bottom |-> 300, confidence |-> c] >> :
        c \in { 600, 650, 700, 900 } }

\* the stub grid detector: no line, or a gutter at y = 36
SimGridOutcomes == { <<>>, << 36 >> }

InitSim ==
    /\ infoMap \in SimScenes
    /\ pageRect = SimPage
    /\ settings \in SettingsVariants
    /\ pc = "start"
    /\ paragraphs = <<>>
    /\ lineHeight = [n |-> 16, d |-> 1]
    /\ verticalStrips = <<>>
    /\ layoutBands = <<>>
    /\ guard = 0
    /\ nestedPasses = 0
    /\ aux = Idle
    /\ region = NoCall
    /\ calls = NoCalls
    /\ bulk = NoModal
    /\ plugin = NoPlugin

\* steps 4 and 4.5 with the stub detectors
DetectSim ==
    /\ pc = "detect"
    /\ \E stripsAll \in SimStrips :
         \E horizontalLines \in whitespaceLines(SimGridOutcomes, AllRects, pageRect) :
            DetectWith(stripsAll, horizontalLines)

NextSim ==
    \/ Group \/ DetectSim \/ Validate \/ Merge
    \/ NestedPass \/ LoopExit \/ Revalidate \/ Remerge
    \/ FinalStacked \/ Stitch \/ Order \/ SortSpans \/ Dedup

SpecSim == InitSim /\ [][NextSim]_vars

----------------------------------------------------------------------------
(* GapDetector.detectGapsFromRects called on its own, on pages whose        *)
(* gutter wanders: eight rows of text 36 high, each a fragment on either   *)
(* side of a gutter 8 wide, beside three columns of fragments 48 high that *)
(* fill the right of the page.  The median height is 48, so the sweep      *)
(* takes one band per row and clusters gaps whose centers are within 24.   *)

GutterPage == [left |-> 0, top |-> 0, right |-> 700, bottom |-> 288]

\* the center of the gutter on each row, from the top of the page
GutterRows ==
    { << r1, 224, r3, r4, r5, 226, r7, r8 >> :
        r1 \in { 228, 252 }, r3 \in { 224, 226 }, r4 \in { 200, 224 },
        r5 \in { 202, 226 }, r7 \in { 228, 252 }, r8 \in { 226, 228 } }

\* the two fragments of row k, whose gutter has center c
RowRects(k, c) ==
    << [left |-> 0, top |-> 36 * (k - 1), right |-> c - 4, bottom |-> 36 * k],
       [left |-> c + 4, top |-> 36 * (k - 1), right |-> 400, bottom |-> 36 * k] >>

\* six fragments one on top of the other, from the top to the foot of the page
TallColumn(x) ==
    [k \in 1..6 |-> [left |-> x, top |-> 48 * (k - 1), right |-> x + 100, bottom |-> 48 * k]]

GutterScene(rows) ==
    LET rects == FlattenSeq([k \in 1..Len(rows) |-> RowRects(k, rows[k])])
                   \o TallColumn(400) \o TallColumn(500) \o TallColumn(600)
    IN  [k \in 1..Len(rects) |-> SpanInfoOf(rects[k], BaseStyle, "word")]

InitGaps ==
    /\ infoMap \in { GutterScene(rows) : rows \in GutterRows }
    /\ pageRect = GutterPage
    /\ settings = DefaultSettings
    /\ pc = "gaps"
    /\ paragraphs = <<>>
    /\ lineHeight = [n |-> 16, d |-> 1]
    /\ verticalStrips = <<>>
    /\ layoutBands = <<>>
    /\ guard = 0
    /\ nestedPasses = 0
    /\ aux = Idle
    /\ region = NoCall
    /\ calls = NoCalls
    /\ bulk = NoModal
    /\ plugin = NoPlugin

\* detectGapsFromRects(...).verticalStrips, kept in aux.stripsAll
DetectGaps ==
    /\ pc = "gaps"
    /\ aux' = [aux EXCEPT !.stripsAll = detectGapsFromRects(AllRects, pageRect)]
    /\ pc' = "scanned"
    /\ UNCHANGED << region, calls, bulk, plugin, infoMap, pageRect, settings, paragraphs, lineHeight,
                    verticalStrips, layoutBands, guard, nestedPasses >>

NextGaps == DetectGaps

SpecGaps == InitGaps /\ [][NextGaps]_vars

----------------------------------------------------------------------------
(* RegionDetector.segmentVerticalLayouts *)

\* DEFAULT_OPTIONS
columnGapMultiplier == 2
shiftMultiplier == 4
minSegmentHeightMultiplier == 2

\* the step of the sampling loop, max(5, avgLineHeight * 0.5); avgLineHeight is even
sampleStep(avgLineHeight) == Max(5, avgLineHeight \div 2)

MinOf(S) == CHOOSE v \in S : \A w \in S : v <= w
MaxOf(S) == CHOOSE v \in S : \A w \in S : v >= w

\* the loop of lines 167-178 over the sorted left coordinates
RECURSIVE ColumnsFrom(_, _, _, _)
ColumnsFrom(leftCoords, i, columns, gapThreshold) ==
    IF i > Len(leftCoords) THEN columns
    ELSE LET currentLeft == leftCoords[i]
             closest == MinOf({ Abs(columns[k] - currentLeft) : k \in DOMAIN columns })
         IN  IF closest > gapThreshold
             THEN ColumnsFrom(leftCoords, i + 1, Append(columns, currentLeft), gapThreshold)
             ELSE ColumnsFrom(leftCoords, i + 1, columns, gapThreshold)

NumberLess(a, b) == a < b

_countColumnsHistogram(spans, gapThreshold) ==
    IF Len(spans) = 0 THEN 0
    ELSE IF Len(spans) = 1 THEN 1
    ELSE LET leftCoords == SortBy(NumberLess, [k \in DOMAIN spans |-> spans[k].left])
         IN  Len(ColumnsFrom(leftCoords, 2, << leftCoords[1] >>, gapThreshold))

\* the active window at sample y: a span enters at the first sample at or
\* below its top if its bottom is not above that sample (lines 136-141), and
\* leaves at the first sample below its bottom (lines 129-133)
activeSpansAt(spanRects, y) ==
    LET InWindow(r) == r.top <= y /\ r.bottom >= y IN SelectSeq(spanRects, InWindow)

\* the density point of sample y, or the mark of a sample without spans
densityPointAt(spanRects, y, avgLineHeight) ==
    LET activeSpans == activeSpansAt(spanRects, y) IN
    IF Len(activeSpans) > 0
    THEN [y |-> y,
          cols |-> _countColumnsHistogram(activeSpans, columnGapMultiplier * avgLineHeight),
          left |-> MinOf({ activeSpans[k].left : k \in DOMAIN activeSpans }),
          right |-> MaxOf({ activeSpans[k].right : k \in DOMAIN activeSpans })]
    ELSE [y |-> y, cols |-> 0, left |-> 0, right |-> 0]

_sampleDensityProfile(spanRects, page, avgLineHeight) ==
    LET step == sampleStep(avgLineHeight)
        count == (page.bottom - page.top + step - 1) \div step
        HasSpans(p) == p.cols > 0
    IN  SelectSeq([k \in 1..count |->
                      densityPointAt(spanRects, page.top + (k - 1) * step, avgLineHeight)],
                  HasSpans)

\* lines 68-74, 82-85 and 105-108: the whole page as one segment of one column
wholePage(page) ==
    << [top |-> 10 * page.top, bottom |-> 10 * page.bottom,
        left |-> page.left, right |-> page.right, columns |-> 1] >>

\* lines 95-103; top and bottom of the result are in tenths of a pixel
finalSegment(segment, page, avgLineHeight) ==
    LET buffer == Min(avgLineHeight * 5, segment.bottom - segment.top) IN
    [segment EXCEPT !.top = Max(10 * page.top, 10 * segment.top - buffer),
                    !.bottom = Min(10 * page.bottom, 10 * segment.bottom + buffer)]

\* lines 246-248 and 254-256
widened(currentSegment, nextSegment) ==
    [currentSegment EXCEPT !.bottom = nextSegment.bottom,
                           !.right = Max(currentSegment.right, nextSegment.right),
                           !.left = Min(currentSegment.left, nextSegment.left)]

\* line 265
tallEnough(s, avgLineHeight) == s.bottom - s.top > minSegmentHeightMultiplier * avgLineHeight

\* lines 67-86 and 195-202: early returns, the density profile, the first segment
RegionSample ==
    /\ region.pc = "start"
    /\ LET densityPoints == IF Len(region.spanRects) = 0 THEN <<>>
                            ELSE _sampleDensityProfile(region.spanRects, region.pageRect,
                                                       region.avgLineHeight)
       IN  IF densityPoints = <<>>
           THEN region' = [region EXCEPT !.pc = "done", !.result = wholePage(region.pageRect)]
           ELSE region' = [region EXCEPT
                    !.pc = "scan",
                    !.densityPoints = densityPoints,
                    !.lastPoint = densityPoints[1],
                    !.i = 2,
                    !.segments = << [top |-> region.pageRect.top, bottom |-> densityPoints[1].y,
                                     left |-> densityPoints[1].left,
                                     right |-> densityPoints[1].right,
                                     columns |-> densityPoints[1].cols] >>]
    /\ UNCHANGED << layoutVars, calls, bulk, plugin >>

\* one turn of the loop of lines 204-220
RegionScan ==
    /\ region.pc = "scan"
    /\ region.i <= Len(region.densityPoints)
    /\ LET currPoint == region.densityPoints[region.i]
           lastPoint == region.lastPoint
           colChange == currPoint.cols # lastPoint.cols
           leftShift == Abs(currPoint.left - lastPoint.left)
                            > shiftMultiplier * region.avgLineHeight
           rightShift == Abs(currPoint.right - lastPoint.right)
                            > shiftMultiplier * region.avgLineHeight
       IN  IF colChange \/ leftShift \/ rightShift
           THEN region' = [region EXCEPT
                    !.segments = Append(@, [top |-> lastPoint.y, bottom |-> currPoint.y,
                                            left |-> currPoint.left, right |-> currPoint.right,
                                            columns |-> currPoint.cols]),
                    !.lastPoint = currPoint,
                    !.i = @ + 1]
           ELSE region' = [region EXCEPT !.i = @ + 1]
    /\ UNCHANGED << layoutVars, calls, bulk, plugin >>

\* line 222, and lines 235-238 of _consolidateSegments
RegionScanEnd ==
    /\ region.pc = "scan"
    /\ region.i > Len(region.densityPoints)
    /\ LET segments == [region.segments EXCEPT ![Len(region.segments)].bottom =
                                                   region.pageRect.bottom]
       IN  region' = [region EXCEPT !.pc = "consolidate", !.segments = segments,
                                    !.currentSegment = segments[1], !.i = 2,
                                    !.consolidated = <<>>]
    /\ UNCHANGED << layoutVars, calls, bulk, plugin >>

\* one turn of the loop of lines 240-261
RegionConsolidate ==
    /\ region.pc = "consolidate"
    /\ region.i <= Len(region.segments)
    /\ LET nextSegment == region.segments[region.i]
           currentSegment == region.currentSegment
           height == currentSegment.bottom - currentSegment.top
       IN  IF height < minSegmentHeightMultiplier * region.avgLineHeight
              \/ nextSegment.columns = currentSegment.columns
           THEN region' = [region EXCEPT !.currentSegment = widened(currentSegment, nextSegment),
                                         !.i = @ + 1]
           ELSE region' = [region EXCEPT !.consolidated = Append(@, currentSegment),
                                         !.currentSegment = nextSegment,
                                         !.i = @ + 1]
    /\ UNCHANGED << layoutVars, calls, bulk, plugin >>

\* lines 262-265 and 94-103 without the fallback of lines 105-108
RegionFinishNoFallback ==
    /\ region.pc = "consolidate"
    /\ region.i > Len(region.segments)
    /\ LET Tall(s) == tallEnough(s, region.avgLineHeight)
           consolidated == SelectSeq(Append(region.consolidated, region.currentSegment), Tall)
           finalSegments == [k \in DOMAIN consolidated |->
                                finalSegment(consolidated[k], region.pageRect,
                                             region.avgLineHeight)]
       IN  region' = [region EXCEPT !.pc = "done", !.consolidated = consolidated,
                                    !.result = finalSegments]
    /\ UNCHANGED << layoutVars, calls, bulk, plugin >>

\* lines 262-265 and 94-108
RegionFinish ==
    /\ region.pc = "consolidate"
    /\ region.i > Len(region.segments)
    /\ LET Tall(s) == tallEnough(s, region.avgLineHeight)
           consolidated == SelectSeq(Append(region.consolidated, region.currentSegment), Tall)
           finalSegments == [k \in DOMAIN consolidated |->
                                finalSegment(consolidated[k], region.pageRect,
                                             region.avgLineHeight)]
       IN  region' = [region EXCEPT
                !.pc = "done",
                !.consolidated = consolidated,
                !.result = IF Len(finalSegments) > 0 THEN finalSegments
                           ELSE wholePage(region.pageRect)]
    /\ UNCHANGED << layoutVars, calls, bulk, plugin >>

\* the synthetic pages: 600 x 800 with a full-width header at y 0-50, a
\* two-column body at y 60-700 and a full-width footer at y 710-800, each
\* part one block or a run of text lines
RegionPage == [left |-> 0, top |-> 0, right |-> 600, bottom |-> 800]

\* lines of height h every pitch pixels from top, the last one ending at bottom
Rows(top, bottom, h, pitch, left, right) ==
    [k \in 1..((bottom - top - h) \div pitch + 1) |->
        [left |-> left, top |-> top + (k - 1) * pitch,
         right |-> right, bottom |-> top + (k - 1) * pitch + h]]

Block(top, bottom, left, right) ==
    << [left |-> left, top |-> top, right |-> right, bottom |-> bottom] >>

RegionMargins == { 0, 40 }

HeaderFooters ==
    { Block(0, 50, 0, 600) \o Block(710, 800, 0, 600),
      Rows(0, 50, 14, 18, 0, 600) \o Rows(710, 800, 18, 24, 0, 600) }

\* the body with margin m: two blocks, lines side by side, lines staggered
Bodies(m) ==
    { Block(60, 700, m, 280) \o Block(60, 700, 320, 600 - m),
      Rows(60, 700, 16, 24, m, 280) \o Rows(60, 700, 16, 24, 320, 600 - m),
      Rows(60, 700, 16, 24, m, 280) \o Rows(72, 688, 16, 24, 320, 600 - m) }

ThreePartPages ==
    UNION { { hf \o body : hf \in HeaderFooters, body \in Bodies(m) } : m \in RegionMargins }

\* the average line heights a caller passes
RegionLineHeights == { 10, 16, 20, 24, 30 }

NoPoint == [y |-> 0, cols |-> 0, left |-> 0, right |-> 0]
NoSegment == [top |-> 0, bottom |-> 0, left |-> 0, right |-> 0, columns |-> 0]

\* a page one banner high
BannerPage == [left |-> 0, top |-> 0, right |-> 600, bottom |-> 40]

\* a full-width block at y 0-45, two columns at y 50-65, three columns at
\* y 70-85 and a full-width block from y 90 to the foot of the page
NarrowingPage ==
    Block(0, 45, 0, 600)
      \o Block(50, 65, 0, 280) \o Block(50, 65, 320, 600)
      \o Block(70, 85, 0, 180) \o Block(70, 85, 200, 380) \o Block(70, 85, 400, 600)
      \o Block(90, 800, 0, 600)

\* the calls explored: the three-part pages, a page without fragments, a page
\* whose only fragment is a hairline between two samples, a page that goes
\* from one to two to three columns and back to one, and a banner page
\* filled by one fragment
RegionCalls ==
    { [spanRects |-> spanRects, pageRect |-> RegionPage] :
         spanRects \in ThreePartPages \cup { <<>>, Block(2, 4, 0, 600), NarrowingPage } }
    \cup { [spanRects |-> spanRects, pageRect |-> BannerPage] :
               spanRects \in { <<>>, Block(0, 40, 0, 600) } }

InitRegion ==
    /\ \E call \in RegionCalls, avgLineHeight \in RegionLineHeights :
          region = [pc |-> "start", spanRects |-> call.spanRects, pageRect |-> call.pageRect,
                    avgLineHeight |-> avgLineHeight, densityPoints |-> <<>>,
                    lastPoint |-> NoPoint, i |-> 0, segments |-> <<>>,
                    currentSegment |-> NoSegment, consolidated |-> <<>>, result |-> <<>>]
    /\ infoMap = <<>>
    /\ pageRect = RegionPage
    /\ settings = DefaultSettings
    /\ pc = "done"
    /\ paragraphs = <<>>
    /\ lineHeight = [n |-> 16, d |-> 1]
    /\ verticalStrips = <<>>
    /\ layoutBands = <<>>
    /\ guard = 0
    /\ nestedPasses = 0
    /\ aux = Idle
    /\ calls = NoCalls
    /\ bulk = NoModal
    /\ plugin = NoPlugin

NextRegion ==
    \/ RegionSample \/ RegionScan \/ RegionScanEnd \/ RegionConsolidate \/ RegionFinish

SpecRegion == InitRegion /\ [][NextRegion]_vars

----------------------------------------------------------------------------
(* TranslateMultiplePagesModal (src/unnamed/part_001): the bulk            *)
(* translation job.  Each modal instance has a view and, once Start is     *)
(* pressed, a job: the asynchronous translatePageRange loop, which yields   *)
(* at every await.  A job that awaits a timer set by sleep() has            *)
(* timer = TRUE.  A command can open a modal while another is open.       *)
(* Pacing uses the default delay; the time window only lengthens it.       *)

\* retryWithBackoff, lines 380-381
maxRetries == 3
baseDelay == 1500

\* the last page of the document
MaxPages == 2

\* the modal instances created
Modals == { "m1", "m2" }
NoInstance == "null"

RECURSIVE Pow2(_)
Pow2(n) == IF n = 0 THEN 1 ELSE 2 * Pow2(n - 1)

\* a delay that does not grow with the attempt
flatDelay(attempt) == baseDelay

\* line 389: baseDelay * Math.pow(2, attempt)
backoffDelay(attempt) == baseDelay * Pow2(attempt)

\* a job: pageNum is the page in hand, attempt the loop variable of
\* retryWithBackoff, waited the time the last backoff sleep of the page took
NoJob ==
    [pc |-> "none", queue |-> <<>>, pageNum |-> 0, attempt |-> 0, waited |-> 0,
     completed |-> 0, failed |-> 0, timer |-> FALSE]

NewModal ==
    [view |-> "new", isProcessing |-> FALSE, isCancelled |-> FALSE,
     startDisabled |-> FALSE, job |-> NoJob]

OpenViews == { "estimating", "setup", "manage" }

\* the positions at which translatePageRange is running
JobPositions == { "opening", "loop", "attempt", "navigate", "translate", "backoff", "pacing" }

PageQueue(startPage, endPage) == [i \in 1..(endPage - startPage + 1) |-> startPage + i - 1]

\* cleanup, lines 407-422: clearTimeout leaves a sleep of this modal's job
\* unresolved for ever, and the locals of that job are never used again
cleanup(b, m) ==
    LET job == b.modals[m].job
        cleared == IF job.timer THEN [NoJob EXCEPT !.pc = "hung"] ELSE job
        b1 == [b EXCEPT !.modals[m].isProcessing = FALSE, !.modals[m].job = cleared]
    IN  IF b.currentInstance = m
        THEN [b1 EXCEPT !.isBulkTranslationInProgress = FALSE, !.currentInstance = NoInstance]
        ELSE b1

\* onClose, lines 400-405
onClose(b, m) ==
    LET b1 == [b EXCEPT !.modals[m].view = "closed"] IN
    IF b.modals[m].isProcessing THEN cleanup(b1, m) ELSE b1

\* the Start handler after translatePageRange returned, lines 204-217; the
\* locals of translatePageRange are gone
jobReturned(b, m) ==
    LET b1 == [b EXCEPT !.modals[m].job = [NoJob EXCEPT !.pc = "ended"]]
        b2 == IF ~ b.modals[m].isCancelled THEN onClose(b1, m) ELSE b1
        b3 == cleanup(b2, m)
    IN  [b3 EXCEPT !.modals[m].startDisabled = b.modals[m].isCancelled]

\* the Start handler after translatePageRange threw, lines 208-217
jobThrew(b, m) ==
    LET b1 == [b EXCEPT !.modals[m].job = [NoJob EXCEPT !.pc = "ended"]]
        b2 == cleanup(b1, m)
    IN  [b2 EXCEPT !.modals[m].startDisabled = b.modals[m].isCancelled]

\* sleep(pacingDelay), lines 360-363 and 461-466
pace(b, m) ==
    IF b.modals[m].isCancelled
    THEN [b EXCEPT !.modals[m].job.pc = "loop"]
    ELSE [b EXCEPT !.modals[m].job.pc = "pacing", !.modals[m].job.timer = TRUE]

\* the page operation threw: the catch of retryWithBackoff (lines 387-395)
\* and, past the last attempt, the catch of the page loop (lines 353-358)
operationFailed(b, m) ==
    LET job == b.modals[m].job
        b0 == [b EXCEPT !.modals[m].job.timer = FALSE]
    IN  IF job.attempt < maxRetries - 1
        THEN IF b.modals[m].isCancelled
             THEN [b0 EXCEPT !.modals[m].job.pc = "attempt",
                             !.modals[m].job.attempt = @ + 1,
                             !.modals[m].job.waited = 0]
             ELSE [b0 EXCEPT !.modals[m].job.pc = "backoff", !.modals[m].job.timer = TRUE,
                             !.modals[m].job.waited = backoffDelay(job.attempt)]
        ELSE IF b.modals[m].isCancelled
             THEN jobReturned(b0, m)
             ELSE pace([b0 EXCEPT !.modals[m].job.failed = @ + 1], m)

InitBulk ==
    /\ bulk = [isBulkTranslationInProgress |-> FALSE, currentInstance |-> NoInstance,
               modals |-> [m \in Modals |-> NewModal]]
    /\ infoMap = <<>>
    /\ pageRect \in PageRects
    /\ settings = DefaultSettings
    /\ pc = "done"
    /\ paragraphs = <<>>
    /\ lineHeight = [n |-> 16, d |-> 1]
    /\ verticalStrips = <<>>
    /\ layoutBands = <<>>
    /\ guard = 0
    /\ nestedPasses = 0
    /\ aux = Idle
    /\ region = NoCall
    /\ calls = NoCalls
    /\ plugin = NoPlugin

\* onOpen up to its await, lines 60-70
Open(m) ==
    /\ bulk.modals[m].view = "new"
    /\ bulk' = [bulk EXCEPT !.modals[m].view =
                   IF bulk.isBulkTranslationInProgress /\ bulk.currentInstance # NoInstance
                   THEN "manage" ELSE "estimating"]
    /\ UNCHANGED << layoutVars, region, calls, plugin >>

\* onOpen after estimateTotalPages, lines 72-82
Rendered(m) ==
    /\ bulk.modals[m].view = "estimating"
    /\ bulk' = [bulk EXCEPT !.modals[m].view = "setup"]
    /\ UNCHANGED << layoutVars, region, calls, plugin >>

\* the Start button, lines 191-202, and initializeJobState
Start(m, startPage, endPage) ==
    /\ bulk.modals[m].view = "setup"
    /\ ~ bulk.modals[m].startDisabled
    /\ ~ (startPage > endPage)
    /\ bulk' = [bulk EXCEPT
                  !.isBulkTranslationInProgress = TRUE,
                  !.currentInstance = m,
                  !.modals[m].isProcessing = TRUE,
                  !.modals[m].isCancelled = FALSE,
                  !.modals[m].startDisabled = TRUE,
                  !.modals[m].job = [NoJob EXCEPT !.pc = "opening",
                                                  !.queue = PageQueue(startPage, endPage)]]
    /\ UNCHANGED << layoutVars, region, calls, plugin >>

\* the Abort button, lines 220-230
Abort(m) ==
    /\ bulk.modals[m].view = "setup"
    /\ bulk.modals[m].isProcessing
    /\ ~ bulk.modals[m].isCancelled
    /\ bulk' = [bulk EXCEPT !.modals[m].isCancelled = TRUE]
    /\ UNCHANGED << layoutVars, region, calls, plugin >>

\* the Cancel Translation button of the management view, lines 114-122,
\* and cancelCurrentTranslation
CancelCurrent(m) ==
    /\ bulk.modals[m].view = "manage"
    /\ LET c == bulk.currentInstance
           b1 == IF c # NoInstance /\ bulk.modals[c].isProcessing
                 THEN [bulk EXCEPT !.modals[c].isCancelled = TRUE] ELSE bulk
       IN  bulk' = onClose(b1, m)
    /\ UNCHANGED << layoutVars, region, calls, plugin >>

\* the user closes the modal
Close(m) ==
    /\ bulk.modals[m].view \in OpenViews
    /\ bulk' = onClose(bulk, m)
    /\ UNCHANGED << layoutVars, region, calls, plugin >>

\* translatePageRange, lines 257-270: the PDF is opened, or it is not
OpenFile(m) ==
    /\ bulk.modals[m].job.pc = "opening"
    /\ \/ bulk' = [bulk EXCEPT !.modals[m].job.pc = "loop"]
       \/ bulk' = jobThrew(bulk, m)
    /\ UNCHANGED << layoutVars, region, calls, plugin >>

\* the head of the page loop, lines 287-295
LoopTop(m) ==
    /\ bulk.modals[m].job.pc = "loop"
    /\ LET job == bulk.modals[m].job IN
         IF bulk.modals[m].isCancelled \/ job.queue = <<>>
         THEN bulk' = jobReturned(bulk, m)
         ELSE bulk' = [bulk EXCEPT !.modals[m].job =
                          [job EXCEPT !.pc = "attempt", !.pageNum = Head(job.queue),
                                      !.queue = Tail(job.queue), !.attempt = 0,
                                      !.waited = 0]]
    /\ UNCHANGED << layoutVars, region, calls, plugin >>

\* the head of the loop of retryWithBackoff, lines 383-386
AttemptTop(m) ==
    /\ bulk.modals[m].job.pc = "attempt"
    /\ bulk.modals[m].job.attempt < maxRetries
    /\ IF bulk.modals[m].isCancelled
       THEN bulk' = jobReturned(bulk, m)
       ELSE bulk' = [bulk EXCEPT !.modals[m].job.pc = "navigate",
                                 !.modals[m].job.timer = TRUE]
    /\ UNCHANGED << layoutVars, region, calls, plugin >>

\* navigateToPage and waitForPageAndTextLayer, lines 300-304: they poll on
\* timers and give up once the job is cancelled
Navigate(m) ==
    /\ bulk.modals[m].job.pc = "navigate"
    /\ \/ /\ ~ bulk.modals[m].isCancelled
          /\ bulk' = [bulk EXCEPT !.modals[m].job.pc = "translate",
                                  !.modals[m].job.timer = FALSE]
       \/ bulk' = operationFailed(bulk, m)
    /\ UNCHANGED << layoutVars, region, calls, plugin >>

\* translation, overlay and verification, lines 306-351
Translate(m) ==
    /\ bulk.modals[m].job.pc = "translate"
    /\ \/ bulk' = pace([bulk EXCEPT !.modals[m].job.completed = @ + 1], m)
       \/ bulk' = operationFailed(bulk, m)
    /\ UNCHANGED << layoutVars, region, calls, plugin >>

\* the timer of sleep() fires: after a backoff the next attempt, after the
\* pacing delay the next page
TimerFires(m) ==
    /\ bulk.modals[m].job.pc \in { "backoff", "pacing" }
    /\ bulk.modals[m].job.timer
    /\ bulk' = [bulk EXCEPT
                  !.modals[m].job.timer = FALSE,
                  !.modals[m].job.pc = IF @ = "backoff" THEN "attempt" ELSE "loop",
                  !.modals[m].job.attempt = IF bulk.modals[m].job.pc = "backoff"
                                            THEN @ + 1 ELSE @]
    /\ UNCHANGED << layoutVars, region, calls, plugin >>

NextBulk ==
    \E m \in Modals :
        \/ Open(m) \/ Rendered(m) \/ Abort(m) \/ CancelCurrent(m) \/ Close(m)
        \/ \E startPage \in 1..MaxPages, endPage \in 1..MaxPages : Start(m, startPage, endPage)
        \/ OpenFile(m) \/ LoopTop(m) \/ AttemptTop(m) \/ Navigate(m) \/ Translate(m)
        \/ TimerFires(m)

SpecBulk == InitBulk /\ [][NextBulk]_vars

----------------------------------------------------------------------------
(* TextProcessor.createOverlayWithText (src/processing.ts) and the page it *)
(* works on.  A translated text is a string over the letter "a" and the    *)
(* newline; a page is detached, or attached without a text layer, or       *)
(* attached with a text layer that yields a number of translation units.   *)

MaxText == 2
MaxUnits == 2
MaxCalls == 2

PageElements == { "page1", "page2" }

Texts == UNION { [1..n -> { "a", "\n" }] : n \in 0..MaxText }

\* String.prototype.split('\n'): the pieces between the newlines
RECURSIVE SplitLinesFrom(_, _, _)
SplitLinesFrom(text, cur, out) ==
    IF text = <<>> THEN Append(out, cur)
    ELSE IF Head(text) = "\n" THEN SplitLinesFrom(Tail(text), <<>>, Append(out, cur))
    ELSE SplitLinesFrom(Tail(text), Append(cur, Head(text)), out)

SplitLines(text) == SplitLinesFrom(text, <<>>, <<>>)

\* the states of a page element: what validatePageElement, the query for
\* .textLayer and prepareTranslationUnits find
PageStates ==
    { [connected |-> FALSE, textLayer |-> FALSE, units |-> 0],
      [connected |-> TRUE, textLayer |-> FALSE, units |-> 0] }
    \cup { [connected |-> TRUE, textLayer |-> TRUE, units |-> n] : n \in 0..MaxUnits }

NoContainer == [present |-> FALSE, overlays |-> 0]
NoUnits == [pageElement |-> "null", units |-> 0]
NoOverlayCall == [pageElement |-> "null", lines |-> 0, units |-> 0,
                  rendered |-> FALSE, saveRequested |-> FALSE]

\* renderOverlay and OverlayRenderer.renderOverlays (part_000 lines 86-130):
\* one overlay per unit whose translated line is not blank
renderOverlay(units, translatedLines) ==
    [present |-> TRUE,
     overlays |-> Cardinality({ i \in 1..units : i <= Len(translatedLines)
                                                    /\ translatedLines[i] # <<>> })]

\* createOverlayWithText that renders whatever the number of lines
createOverlayUnchecked(pl, pageElement, translatedText) ==
    LET page == pl.pages[pageElement]
        pushed == [pl EXCEPT !.overlayContainers = @ + 1]
        translationUnits == IF pl.lastPreparedUnits.pageElement = pageElement
                            THEN pl.lastPreparedUnits.units ELSE page.units
        translatedLines == SplitLines(translatedText)
        call == [pageElement |-> pageElement, lines |-> Len(translatedLines),
                 units |-> translationUnits, rendered |-> FALSE, saveRequested |-> FALSE]
    IN  IF ~ page.connected THEN [pl EXCEPT !.call = [call EXCEPT !.units = 0]]
        ELSE IF ~ page.textLayer
        THEN [pl EXCEPT !.container[pageElement] = NoContainer,
                        !.call = [call EXCEPT !.units = 0]]
        ELSE IF translationUnits = 0
        THEN [pushed EXCEPT !.container[pageElement] = NoContainer, !.call = call]
        ELSE [pushed EXCEPT
                !.container[pageElement] = renderOverlay(translationUnits, translatedLines),
                !.frames = IF pl.autoSaveOverlay THEN @ + 1 ELSE @,
                !.call = [call EXCEPT !.rendered = TRUE,
                                      !.saveRequested = pl.autoSaveOverlay]]

\* createOverlayWithText (lines 96-124); it awaits nothing, so it runs in one
\* step.  preparePageForOverlay removes the container the page has and
\* appends a new one; every early return removes the new one.
createOverlayWithText(pl, pageElement, translatedText) ==
    LET page == pl.pages[pageElement]
        pushed == [pl EXCEPT !.overlayContainers = @ + 1]
        translationUnits == IF pl.lastPreparedUnits.pageElement = pageElement
                            THEN pl.lastPreparedUnits.units ELSE page.units
        translatedLines == SplitLines(translatedText)
        call == [pageElement |-> pageElement, lines |-> Len(translatedLines),
                 units |-> translationUnits, rendered |-> FALSE, saveRequested |-> FALSE]
    IN  IF ~ page.connected THEN [pl EXCEPT !.call = [call EXCEPT !.units = 0]]
        ELSE IF ~ page.textLayer
        THEN [pl EXCEPT !.container[pageElement] = NoContainer,
                        !.call = [call EXCEPT !.units = 0]]
        ELSE IF translationUnits = 0
        THEN [pushed EXCEPT !.container[pageElement] = NoContainer, !.call = call]
        ELSE IF Len(translatedLines) # translationUnits
        THEN [pushed EXCEPT !.container[pageElement] = NoContainer, !.call = call]
        ELSE [pushed EXCEPT
                !.container[pageElement] = renderOverlay(translationUnits, translatedLines),
                !.frames = IF pl.autoSaveOverlay THEN @ + 1 ELSE @,
                !.call = [call EXCEPT !.rendered = TRUE,
                                      !.saveRequested = pl.autoSaveOverlay]]

InitOverlay ==
    /\ plugin = [pc |-> "overlay",
                 pages |-> [e \in PageElements |->
                              [connected |-> TRUE, textLayer |-> TRUE, units |-> 1]],
                 container |-> [e \in PageElements |-> NoContainer],
                 lastPreparedUnits |-> NoUnits,
                 overlayContainers |-> 0,
                 autoSaveOverlay |-> TRUE,
                 frames |-> 0,
                 call |-> NoOverlayCall]
    /\ infoMap = <<>>
    /\ pageRect = SimPage
    /\ settings = DefaultSettings
    /\ pc = "done"
    /\ paragraphs = <<>>
    /\ lineHeight = [n |-> 16, d |-> 1]
    /\ verticalStrips = <<>>
    /\ layoutBands = <<>>
    /\ guard = 0
    /\ nestedPasses = 0
    /\ aux = Idle
    /\ region = NoCall
    /\ calls = NoCalls
    /\ bulk = NoModal

\* the viewer renders, re-renders or detaches a page
PageRenders(pageElement, state) ==
    /\ plugin.pc = "overlay"
    /\ plugin.pages[pageElement] # state
    /\ plugin' = [plugin EXCEPT !.pages[pageElement] = state]
    /\ UNCHANGED << layoutVars, region, calls, bulk >>

\* translatePageContent up to its await (lines 74-87)
TranslatePageContent(pageElement) ==
    /\ plugin.pc = "overlay"
    /\ plugin.pages[pageElement].textLayer
    /\ plugin.pages[pageElement].units > 0
    /\ plugin' = [plugin EXCEPT !.lastPreparedUnits =
                     [pageElement |-> pageElement,
                      units |-> plugin.pages[pageElement].units]]
    /\ UNCHANGED << layoutVars, region, calls, bulk >>

CreateOverlayWithText(pageElement, translatedText) ==
    /\ plugin.pc = "overlay"
    /\ plugin.overlayContainers < MaxCalls
    /\ plugin' = createOverlayWithText(plugin, pageElement, translatedText)
    /\ UNCHANGED << layoutVars, region, calls, bulk >>

\* the settings tab
ToggleAutoSave ==
    /\ plugin.pc = "overlay"
    /\ plugin' = [plugin EXCEPT !.autoSaveOverlay = ~ @]
    /\ UNCHANGED << layoutVars, region, calls, bulk >>

\* the callback of requestAnimationFrame (line 122): saveCurrentPageOverlay
AnimationFrame ==
    /\ plugin.pc = "overlay"
    /\ plugin.frames > 0
    /\ plugin' = [plugin EXCEPT !.frames = @ - 1]
    /\ UNCHANGED << layoutVars, region, calls, bulk >>

NextOverlay ==
    \/ \E e \in PageElements, state \in PageStates : PageRenders(e, state)
    \/ \E e \in PageElements : TranslatePageContent(e)
    \/ \E e \in PageElements, text \in Texts : CreateOverlayWithText(e, text)
    \/ ToggleAutoSave
    \/ AnimationFrame

SpecOverlay == InitOverlay /\ [][NextOverlay]_vars

----------------------------------------------------------------------------
(* TranslationStorage.updatePageOverlaysAndWrite (src/storage.ts): the     *)
(* translation file of one PDF, the calls made for it and the promise each *)
(* call put in writingPromises.  The items a call writes for a page are    *)
(* named by the call's number; 0 stands for "the page has no entry".       *)

MaxWrites == 3

PageNumbers == { 1, 2 }

NoOverlays == [p \in PageNumbers |-> 0]
NoFile == [exists |-> FALSE, pageOverlays |-> NoOverlays]

\* "Merge the new page data into the overlay" (lines 716-724)
MergePages(pageOverlays, page, items) == [pageOverlays EXCEPT ![page] = items]

\* the call takes no notice of the pending promise
UpdateUnchained(page, empty) ==
    /\ plugin.pc = "storage"
    /\ Len(plugin.writes) < MaxWrites
    /\ LET i == Len(plugin.writes) + 1
       IN  plugin' = [plugin EXCEPT
               !.writes = Append(@, [page |-> page, items |-> IF empty THEN 0 ELSE i,
                                     pendingPromise |-> 0, state |-> "queued",
                                     mdFile |-> FALSE, readFailed |-> FALSE,
                                     md |-> NoOverlays,
                                     ran |-> 0, outcome |-> "none"]),
               !.writingPromises = i]
    /\ UNCHANGED << layoutVars, region, calls, bulk >>

\* updatePageOverlaysAndWrite up to its await (lines 680-755): the new
\* promise is chained to the one writingPromises holds for the file
UpdatePageOverlaysAndWrite(page, empty) ==
    /\ plugin.pc = "storage"
    /\ Len(plugin.writes) < MaxWrites
    /\ LET i == Len(plugin.writes) + 1
       IN  plugin' = [plugin EXCEPT
               !.writes = Append(@, [page |-> page, items |-> IF empty THEN 0 ELSE i,
                                     pendingPromise |-> plugin.writingPromises,
                                     state |-> "queued",
                                     mdFile |-> FALSE, readFailed |-> FALSE,
                                     md |-> NoOverlays,
                                     ran |-> 0, outcome |-> "none"]),
               !.writingPromises = i]
    /\ UNCHANGED << layoutVars, region, calls, bulk >>

\* whether the promise a call waits for is fulfilled; a call that found no
\* entry waits for Promise.resolve()
PendingFulfilled(w) ==
    IF w.pendingPromise = 0 THEN TRUE
    ELSE plugin.writes[w.pendingPromise].state = "fulfilled"

PendingRejected(w) ==
    IF w.pendingPromise = 0 THEN FALSE
    ELSE plugin.writes[w.pendingPromise].state = "rejected"

\* the callback of then: writer starts (lines 689-713).  It looks the file
\* up and either awaits its content or goes on with an empty overlay.
WriterStarts(i) ==
    /\ plugin.pc = "storage"
    /\ i \in DOMAIN plugin.writes
    /\ plugin.writes[i].state = "queued"
    /\ PendingFulfilled(plugin.writes[i])
    /\ LET w == plugin.writes[i]
       IN  plugin' = [plugin EXCEPT !.writes[i] =
               IF plugin.file.exists
               THEN [w EXCEPT !.state = "reading", !.mdFile = TRUE, !.ran = @ + 1]
               ELSE [w EXCEPT !.state = "folder", !.mdFile = FALSE, !.ran = @ + 1,
                              !.md = MergePages(NoOverlays, w.page, w.items)]]
    /\ UNCHANGED << layoutVars, region, calls, bulk >>

\* then with one callback: a rejected pending promise rejects the next one
\* and writer is not called (line 745)
WriterSkipped(i) ==
    /\ plugin.pc = "storage"
    /\ i \in DOMAIN plugin.writes
    /\ plugin.writes[i].state = "queued"
    /\ PendingRejected(plugin.writes[i])
    /\ plugin' = [plugin EXCEPT !.writes[i].state = "skipped"]
    /\ UNCHANGED << layoutVars, region, calls, bulk >>

\* vault.read settles (lines 700-707); a failed read or parse leaves an
\* empty overlay.  Then the merge, and the await of vault.modify.
ReadSettles(i, ok) ==
    /\ plugin.pc = "storage"
    /\ i \in DOMAIN plugin.writes
    /\ plugin.writes[i].state = "reading"
    /\ LET w == plugin.writes[i]
           savedOverlay == IF ok /\ plugin.file.exists
                           THEN plugin.file.pageOverlays ELSE NoOverlays
       IN  plugin' = [plugin EXCEPT !.writes[i] =
               [w EXCEPT !.state = "modifying",
                         !.readFailed = ~ (ok /\ plugin.file.exists),
                         !.md = MergePages(savedOverlay, w.page, w.items)]]
    /\ UNCHANGED << layoutVars, region, calls, bulk >>

\* vault.modify settles (line 730)
ModifySettles(i, ok) ==
    /\ plugin.pc = "storage"
    /\ i \in DOMAIN plugin.writes
    /\ plugin.writes[i].state = "modifying"
    /\ plugin' = [plugin EXCEPT
           !.file = IF ok THEN [exists |-> TRUE, pageOverlays |-> plugin.writes[i].md] ELSE @,
           !.writes[i].state = "written",
           !.writes[i].outcome = IF ok THEN "ok" ELSE "failed"]
    /\ UNCHANGED << layoutVars, region, calls, bulk >>

\* ensureStorageFolder settles (line 733)
FolderSettles(i, ok) ==
    /\ plugin.pc = "storage"
    /\ i \in DOMAIN plugin.writes
    /\ plugin.writes[i].state = "folder"
    /\ plugin' = [plugin EXCEPT
           !.writes[i].state = IF ok THEN "creating" ELSE "written",
           !.writes[i].outcome = IF ok THEN "none" ELSE "failed"]
    /\ UNCHANGED << layoutVars, region, calls, bulk >>

\* vault.create settles (lines 734-736); it fails on a path that exists
CreateSettles(i, ok) ==
    /\ plugin.pc = "storage"
    /\ i \in DOMAIN plugin.writes
    /\ plugin.writes[i].state = "creating"
    /\ LET created == ok /\ ~ plugin.file.exists
       IN  plugin' = [plugin EXCEPT
               !.file = IF created
                        THEN [exists |-> TRUE, pageOverlays |-> plugin.writes[i].md] ELSE @,
               !.writes[i].state = "written",
               !.writes[i].outcome = IF created THEN "ok" ELSE "failed"]
    /\ UNCHANGED << layoutVars, region, calls, bulk >>

\* the callback of finally (lines 745-752), after which the promise of the
\* call is settled
Finally(i) ==
    /\ plugin.pc = "storage"
    /\ i \in DOMAIN plugin.writes
    /\ plugin.writes[i].state \in { "written", "skipped" }
    /\ plugin' = [plugin EXCEPT
           !.writingPromises = IF @ = i THEN 0 ELSE @,
           !.writes[i].state = IF plugin.writes[i].outcome = "ok"
                               THEN "fulfilled" ELSE "rejected"]
    /\ UNCHANGED << layoutVars, region, calls, bulk >>

InitStorage ==
    /\ plugin \in { [pc |-> "storage", file |-> f, writes |-> <<>>, writingPromises |-> 0] :
                    f \in { NoFile, [exists |-> TRUE, pageOverlays |-> NoOverlays] } }
    /\ infoMap = <<>>
    /\ pageRect = SimPage
    /\ settings = DefaultSettings
    /\ pc = "done"
    /\ paragraphs = <<>>
    /\ lineHeight = [n |-> 16, d |-> 1]
    /\ verticalStrips = <<>>
    /\ layoutBands = <<>>
    /\ guard = 0
    /\ nestedPasses = 0
    /\ aux = Idle
    /\ region = NoCall
    /\ calls = NoCalls
    /\ bulk = NoModal

NextStorage ==
    \/ \E page \in PageNumbers, empty \in BOOLEAN : UpdatePageOverlaysAndWrite(page, empty)
    \/ \E i \in 1..MaxWrites : WriterStarts(i)
    \/ \E i \in 1..MaxWrites : WriterSkipped(i)
    \/ \E i \in 1..MaxWrites, ok \in BOOLEAN : ReadSettles(i, ok)
    \/ \E i \in 1..MaxWrites, ok \in BOOLEAN : ModifySettles(i, ok)
    \/ \E i \in 1..MaxWrites, ok \in BOOLEAN : FolderSettles(i, ok)
    \/ \E i \in 1..MaxWrites, ok \in BOOLEAN : CreateSettles(i, ok)
    \/ \E i \in 1..MaxWrites : Finally(i)

SpecStorage == InitStorage /\ [][NextStorage]_vars

----------------------------------------------------------------------------
(* OverlayRenderer.loadSavedOverlayForPage (part_000 lines 979-1040): the  *)
(* calls made for the pages of one document, the promise of each call's    *)
(* load body and the map inFlightPageLoads, which names a call by its      *)
(* number (0: no entry).                                                   *)

MaxLoads == 3

\* the pages for which cachedOverlayData holds items
PagesWithData == { 1 }

NoLoads == [p \in PageNumbers |-> 0]

\* loadSavedOverlayForPage up to its first await (lines 979-1036).  A call
\* that is not forced and finds an entry waits for it; any other call
\* starts a load body, which runs up to waitForPdfTextLayer or, for a page
\* without items, to its end, and then replaces the entry of the page.
LoadSavedOverlayForPage(pageNumber, force) ==
    /\ plugin.pc = "load"
    /\ Len(plugin.loads) < MaxLoads
    /\ LET i == Len(plugin.loads) + 1
           entry == plugin.inFlightPageLoads[pageNumber]
           load == [page |-> pageNumber, force |-> force, awaits |-> 0, state |-> "textLayer"]
       IN  IF entry # 0 /\ ~ force
           THEN plugin' = [plugin EXCEPT
                    !.loads = Append(@, [load EXCEPT !.awaits = entry, !.state = "waiting"])]
           ELSE plugin' = [plugin EXCEPT
                    !.loads = Append(@, IF pageNumber \in PagesWithData THEN load
                                        ELSE [load EXCEPT !.state = "settled"]),
                    !.inFlightPageLoads[pageNumber] = i]
    /\ UNCHANGED << layoutVars, region, calls, bulk >>

\* waitForPdfTextLayer settles (lines 998-1019)
TextLayerSettles(i, found) ==
    /\ plugin.pc = "load"
    /\ i \in DOMAIN plugin.loads
    /\ plugin.loads[i].state = "textLayer"
    /\ LET load == plugin.loads[i]
           hasOverlay == plugin.hasOverlay[load.page]
           isLoaded == load.page \in plugin.loadedOverlayPages
       IN  IF ~ found \/ (hasOverlay /\ isLoaded /\ ~ load.force)
           THEN plugin' = [plugin EXCEPT !.loads[i].state = "settled"]
           ELSE IF load.force
           THEN plugin' = [plugin EXCEPT !.loads[i].state = "rendering",
                                         !.hasOverlay[load.page] = FALSE,
                                         !.loadedOverlayPages = @ \ { load.page }]
           ELSE plugin' = [plugin EXCEPT !.loads[i].state = "rendering"]
    /\ UNCHANGED << layoutVars, region, calls, bulk >>

\* renderSavedOverlay settles (lines 1021-1025, 876-973); it catches its
\* own errors
RenderSettles(i, ok) ==
    /\ plugin.pc = "load"
    /\ i \in DOMAIN plugin.loads
    /\ plugin.loads[i].state = "rendering"
    /\ LET page == plugin.loads[i].page
       IN  plugin' = [plugin EXCEPT
               !.loads[i].state = "settled",
               !.hasOverlay[page] = IF ok THEN TRUE ELSE @,
               !.loadedOverlayPages = IF ok THEN @ \cup { page } ELSE @]
    /\ UNCHANGED << layoutVars, region, calls, bulk >>

\* the call resumes after "await loadPromise" and runs its finally block
\* (lines 1035-1039)
LoadReturns(i) ==
    /\ plugin.pc = "load"
    /\ i \in DOMAIN plugin.loads
    /\ plugin.loads[i].state = "settled"
    /\ plugin' = [plugin EXCEPT !.loads[i].state = "returned",
                                !.inFlightPageLoads[plugin.loads[i].page] = 0]
    /\ UNCHANGED << layoutVars, region, calls, bulk >>

\* a call that waited resumes when the promise it found is settled
\* (lines 986-987)
WaiterReturns(i) ==
    /\ plugin.pc = "load"
    /\ i \in DOMAIN plugin.loads
    /\ plugin.loads[i].state = "waiting"
    /\ plugin.loads[plugin.loads[i].awaits].state \in { "settled", "returned" }
    /\ plugin' = [plugin EXCEPT !.loads[i].state = "returned"]
    /\ UNCHANGED << layoutVars, region, calls, bulk >>

InitLoad ==
    /\ plugin = [pc |-> "load", loads |-> <<>>, inFlightPageLoads |-> NoLoads,
                 hasOverlay |-> [p \in PageNumbers |-> FALSE],
                 loadedOverlayPages |-> {}]
    /\ infoMap = <<>>
    /\ pageRect = SimPage
    /\ settings = DefaultSettings
    /\ pc = "done"
    /\ paragraphs = <<>>
    /\ lineHeight = [n |-> 16, d |-> 1]
    /\ verticalStrips = <<>>
    /\ layoutBands = <<>>
    /\ guard = 0
    /\ nestedPasses = 0
    /\ aux = Idle
    /\ region = NoCall
    /\ calls = NoCalls
    /\ bulk = NoModal

NextLoad ==
    \/ \E pageNumber \in PageNumbers, force \in BOOLEAN :
          LoadSavedOverlayForPage(pageNumber, force)
    \/ \E i \in 1..MaxLoads, found \in BOOLEAN : TextLayerSettles(i, found)
    \/ \E i \in 1..MaxLoads, ok \in BOOLEAN : RenderSettles(i, ok)
    \/ \E i \in 1..MaxLoads : LoadReturns(i)
    \/ \E i \in 1..MaxLoads : WaiterReturns(i)

SpecLoad == InitLoad /\ [][NextLoad]_vars

----------------------------------------------------------------------------
(* The translation file (src/storage.ts): generateMarkdownForOverlay,      *)
(* parseMarkdownOverlay and validateMetadata.  A text is a sequence of     *)
(* tokens: the letter "a", the blank, the newline and the four characters  *)
(* "<br>".  A line of the file is a sequence of tokens together with the   *)
(* object its "{...}" token is the JSON of.  Rectangle sides are counted   *)
(* in units of 0.00001.                                                    *)

MaxItems == 2

Whitespace == { " ", "\n" }

RECURSIVE TrimStart(_)
TrimStart(text) ==
    IF text # <<>> /\ Head(text) \in Whitespace THEN TrimStart(Tail(text)) ELSE text

RECURSIVE TrimEnd(_)
TrimEnd(text) ==
    IF text # <<>> /\ text[Len(text)] \in Whitespace
    THEN TrimEnd(SubSeq(text, 1, Len(text) - 1)) ELSE text

\* String.prototype.trim
Trim(text) == TrimEnd(TrimStart(text))

\* replace(/\n/g, '<br>') and replace(/<br>/g, '\n')
Replace(text, from, to) == [k \in DOMAIN text |-> IF text[k] = from THEN to ELSE text[k]]

\* parseFloat(x.toFixed(4)) of a number of five decimals
ToFixed4(x) == ((x + 5) \div 10) * 10

NoMetadata == [r |-> [l |-> 0, t |-> 0, w |-> 0, h |-> 0], page |-> 0, ot |-> <<>>]

Line(toks) == [toks |-> toks, json |-> NoMetadata]

PageToken(pageNumber) == IF pageNumber = 1 THEN "1" ELSE "2"
PageOfToken(tok) == IF tok = "1" THEN 1 ELSE 2

\* the lines generateMarkdownForOverlay writes for one item (lines 117-151)
ItemLines(item) ==
    LET metadata == [r |-> [l |-> ToFixed4(item.relativeRect.left),
                            t |-> ToFixed4(item.relativeRect.top),
                            w |-> ToFixed4(item.relativeRect.width),
                            h |-> ToFixed4(item.relativeRect.height)],
                     page |-> item.page,
                     ot |-> Trim(item.textContent)]
        translated == Replace(Trim(item.translatedText), "\n", "<br>")
    IN  << [toks |-> << "%%", " ", "{...}", " ", "%%" >>, json |-> metadata],
           Line(<<>>), Line(translated), Line(<<>>) >>

RECURSIVE ItemsLines(_)
ItemsLines(items) ==
    IF items = <<>> THEN <<>> ELSE ItemLines(Head(items)) \o ItemsLines(Tail(items))

\* the lines written for the pages from pageNumber on (lines 109-152)
RECURSIVE PagesLines(_, _)
PagesLines(pageOverlays, pageNumber) ==
    IF pageNumber \notin DOMAIN pageOverlays THEN <<>>
    ELSE (IF pageOverlays[pageNumber] = <<>> THEN <<>>
          ELSE << Line(<<>>), Line(<< "##", " ", "Page", " ", PageToken(pageNumber) >>),
                  Line(<<>>), Line(<< "[[", "]]" >>), Line(<<>>) >>
               \o ItemsLines(pageOverlays[pageNumber]))
         \o PagesLines(pageOverlays, pageNumber + 1)

\* generateMarkdownForOverlay (lines 92-155): front matter, title, pages
generateMarkdownForOverlay(savedOverlay) ==
    << Line(<< "---" >>), Line(<< "pdf-source:" >>), Line(<< "timestamp:" >>),
       Line(<< "format-version:", " ", "3" >>), Line(<< "---" >>),
       Line(<<>>), Line(<< "#", " ", "a" >>), Line(<< ">", " ", "a" >>), Line(<<>>) >>
    \o PagesLines(savedOverlay, 1)

\* validateMetadata (lines 160-179)
validateMetadata(metadata) ==
    /\ metadata.page > 0
    /\ metadata.r.w > 0
    /\ metadata.r.h > 0

\* /^##\s+Page\s+(\d+)/i on a trimmed line
PageMatch(toks) ==
    /\ Len(toks) >= 5
    /\ toks[1] = "##" /\ toks[2] = " " /\ toks[3] = "Page" /\ toks[4] = " "
    /\ toks[5] \in { "1", "2" }

\* /^%%\s*(\{.*\})\s*%%/ on a trimmed line
MetaMatch(toks) ==
    /\ Len(toks) >= 5
    /\ toks[1] = "%%" /\ toks[2] = " " /\ toks[3] = "{...}" /\ toks[4] = " "
    /\ toks[5] = "%%"

\* the index of the first line after i that is not blank, or 0
NextNonEmpty(lines, i) ==
    LET later == { j \in (i + 1)..Len(lines) : Trim(lines[j].toks) # <<>> }
    IN  IF later = {} THEN 0 ELSE CHOOSE j \in later : \A k \in later : j <= k

\* the V3 loop of parseMarkdownOverlay (lines 213-262): pageOverlays maps
\* the page numbers met so far to their items
RECURSIVE ParseV3(_, _, _, _)
ParseV3(lines, i, currentPage, pageOverlays) ==
    IF i > Len(lines) THEN pageOverlays
    ELSE LET line == Trim(lines[i].toks)
         IN  IF PageMatch(line)
             THEN LET page == PageOfToken(line[5])
                  IN  ParseV3(lines, i + 1, page,
                              IF page \in DOMAIN pageOverlays THEN pageOverlays
                              ELSE [p \in DOMAIN pageOverlays \cup { page } |->
                                      IF p = page THEN <<>> ELSE pageOverlays[p]])
             ELSE IF currentPage = 0 THEN ParseV3(lines, i + 1, currentPage, pageOverlays)
             ELSE IF MetaMatch(line) /\ validateMetadata(lines[i].json)
             THEN LET metadata == lines[i].json
                      j == NextNonEmpty(lines, i)
                      translatedText == IF j = 0 THEN <<>>
                                        ELSE Replace(Trim(lines[j].toks), "<br>", "\n")
                      overlayData == [textContent |-> metadata.ot,
                                      relativeRect |-> [left |-> metadata.r.l,
                                                        top |-> metadata.r.t,
                                                        width |-> metadata.r.w,
                                                        height |-> metadata.r.h],
                                      page |-> metadata.page,
                                      translatedText |-> translatedText]
                  IN  ParseV3(lines, (IF j = 0 THEN i ELSE j) + 1, currentPage,
                              [pageOverlays EXCEPT ![currentPage] = Append(@, overlayData)])
             ELSE ParseV3(lines, i + 1, currentPage, pageOverlays)

\* the line after the front matter /---\n([\s\S]+?)\n---/, and the format
\* version read from it (lines 186-205)
FrontmatterEnd(lines) ==
    LET closing == { k \in 3..Len(lines) : lines[1].toks = << "---" >> /\ lines[k].toks = << "---" >> }
    IN  IF closing = {} THEN 0 ELSE CHOOSE k \in closing : \A m \in closing : k <= m

FormatVersion(lines) ==
    IF \E k \in 2..(FrontmatterEnd(lines) - 1) :
          lines[k].toks = << "format-version:", " ", "3" >>
    THEN 3 ELSE 1

NoPages == [p \in {} |-> <<>>]

\* parseMarkdownOverlay (lines 185-332); files of the older formats hold no
\* "%%" comment and the table loop finds no row in a V3 file
parseMarkdownOverlay(lines) ==
    IF FormatVersion(lines) >= 3
    THEN ParseV3(lines, FrontmatterEnd(lines) + 1, 0, NoPages)
    ELSE NoPages

Rects == << [left |-> 10000, top |-> 20000, width |-> 30000, height |-> 1000],
           [left |-> 12344, top |-> 12345, width |-> 6, height |-> 99995],
           [left |-> 0, top |-> 0, width |-> 4, height |-> 50000] >>

OverlayTexts == { <<>>, << "a" >>, << "a", "\n", "a" >>, << " ", "a", "\n" >>,
                  << "a", "<br>", "a" >> }

\* the items of the catalogue: every translated text, an original text to
\* trim, a rectangle to round and a rectangle whose width rounds to zero
OverlayItems(pageNumber) ==
    { [textContent |-> << "a" >>, translatedText |-> tt, relativeRect |-> Rects[1],
       page |-> pageNumber] : tt \in OverlayTexts }
    \cup { [textContent |-> << " ", "a", "\n", "a" >>, translatedText |-> << "a" >>,
            relativeRect |-> Rects[k], page |-> pageNumber] : k \in 2..3 }

ItemLists(pageNumber) ==
    UNION { [1..n -> OverlayItems(pageNumber)] : n \in 0..MaxItems }

\* the saved overlays: a list for page 1 and, or, a list of at most one
\* item for page 2
SavedOverlays ==
    { [p \in { 1 } |-> one] : one \in ItemLists(1) }
    \cup { [p \in PageNumbers |-> IF p = 1 THEN one ELSE two] :
             one \in ItemLists(1),
             two \in { list \in ItemLists(2) :
                         Len(list) <= 1
                         /\ \A k \in DOMAIN list : list[k].textContent = << "a" >> } }

InitRoundTrip ==
    /\ plugin \in { [pc |-> "overlay held", savedOverlay |-> o, md |-> <<>>,
                     parsed |-> NoPages] : o \in SavedOverlays }
    /\ infoMap = <<>>
    /\ pageRect = SimPage
    /\ settings = DefaultSettings
    /\ pc = "done"
    /\ paragraphs = <<>>
    /\ lineHeight = [n |-> 16, d |-> 1]
    /\ verticalStrips = <<>>
    /\ layoutBands = <<>>
    /\ guard = 0
    /\ nestedPasses = 0
    /\ aux = Idle
    /\ region = NoCall
    /\ calls = NoCalls
    /\ bulk = NoModal

\* the file is written (storage.ts 660-672, 726-735)
WriteFile ==
    /\ plugin.pc = "overlay held"
    /\ plugin' = [plugin EXCEPT !.pc = "file written",
                                !.md = generateMarkdownForOverlay(plugin.savedOverlay)]
    /\ UNCHANGED << layoutVars, region, calls, bulk >>

\* the file is read back (storage.ts 700-702)
ReadFile ==
    /\ plugin.pc = "file written"
    /\ plugin' = [plugin EXCEPT !.pc = "file read",
                                !.parsed = parseMarkdownOverlay(plugin.md)]
    /\ UNCHANGED << layoutVars, region, calls, bulk >>

NextRoundTrip == WriteFile \/ ReadFile

SpecRoundTrip == InitRoundTrip /\ [][NextRoundTrip]_vars

----------------------------------------------------------------------------
(* The while loop of mergeStackedColumnParagraphsFromInfos (lines 310-375) *)
(* taken one turn at a time, on paragraph lists of the simulated pages.    *)
(* aux holds the list infos, the flag changed, the number of turns taken   *)
(* and the number of paragraphs received.                                  *)

\* every fragment a paragraph of its own
Singletons == [k \in 1..Len(infoMap) |-> << k >>]

InitStacked ==
    /\ infoMap \in SimScenes
    /\ pageRect = SimPage
    /\ settings \in SettingsVariants
    /\ pc = "stacked"
    /\ paragraphs \in { Singletons, mergeIntoParagraphsFromInfos }
    /\ lineHeight \in { [n |-> 16, d |-> 1], estimateLineHeightFromInfos(paragraphs) }
    /\ verticalStrips \in { keptStrips(stripsAll) : stripsAll \in SimStrips }
    /\ layoutBands = <<>>
    /\ guard = 0
    /\ nestedPasses = 0
    /\ aux = [Idle EXCEPT !.changed = TRUE] @@
             [infos |-> SortBy(BboxTopLeftLess, [k \in 1..Len(paragraphs) |-> PInfo(paragraphs[k])]),
              turns |-> 0, received |-> Len(paragraphs)]
    /\ region = NoCall
    /\ calls = NoCalls
    /\ bulk = NoModal
    /\ plugin = NoPlugin

\* the head of the loop (lines 310-313): changed is true whenever control
\* comes here, and the body resets it
StackedLoopHead ==
    /\ pc = "stacked"
    /\ aux.changed
    /\ pc' = "stacked body"
    /\ UNCHANGED << infoMap, pageRect, settings, paragraphs, lineHeight, verticalStrips,
                    layoutBands, guard, nestedPasses, aux, region, calls, bulk, plugin >>

\* a turn of the loop that merged something: infos becomes the sorted out
\* (lines 315-370)
StackedTurn ==
    /\ pc = "stacked body"
    /\ StackedChangedFrom(aux.infos, 1, {}, lineHeight, filterStrips(verticalStrips), layoutBands)
    /\ aux' = [aux EXCEPT
                 !.infos = SortBy(BboxTopLeftLess,
                                  stackedPass(aux.infos, lineHeight,
                                              filterStrips(verticalStrips), layoutBands)),
                 !.turns = @ + 1]
    /\ pc' = "stacked"
    /\ UNCHANGED << infoMap, pageRect, settings, paragraphs, lineHeight, verticalStrips,
                    layoutBands, guard, nestedPasses, region, calls, bulk, plugin >>

\* the turn that merged nothing: the function returns out (lines 371-373)
StackedReturn ==
    /\ pc = "stacked body"
    /\ ~ StackedChangedFrom(aux.infos, 1, {}, lineHeight, filterStrips(verticalStrips), layoutBands)
    /\ LET out == stackedPass(aux.infos, lineHeight, filterStrips(verticalStrips), layoutBands)
       IN  paragraphs' = [k \in 1..Len(out) |-> out[k].spans]
    /\ aux' = [aux EXCEPT !.changed = FALSE, !.turns = @ + 1]
    /\ pc' = "stitch"
    /\ UNCHANGED << infoMap, pageRect, settings, lineHeight, verticalStrips,
                    layoutBands, guard, nestedPasses, region, calls, bulk, plugin >>

NextStacked == StackedLoopHead \/ StackedTurn \/ StackedReturn

SpecStacked == InitStacked /\ [][NextStacked]_vars

\* the loop is synchronous code: until the function has returned, control
\* moves on between the head and the body of the loop
StackedAdvance ==
    /\ pc \in { "stacked", "stacked body" }
    /\ pc' \in { "stacked", "stacked body", "stitch" } \ { pc }

FairStacked == SpecStacked /\ WF_pc(StackedAdvance)

----------------------------------------------------------------------------
(* Properties of detectLayout *)

\* the spans of the page
Spans == 1..Len(infoMap)

\* how often span i occurs in the paragraph list
Occurrences(paras, i) ==
    Cardinality({ pos \in UNION { { << k, n >> : n \in 1..Len(paras[k]) } : k \in 1..Len(paras) } :
                    paras[pos[1]][pos[2]] = i })

IsPartition(paras) ==
    /\ \A i \in Spans : Occurrences(paras, i) = 1
    /\ \A k \in 1..Len(paras) : Range(paras[k]) \subseteq Spans

\* C1: after every stage of detectLayout, and so in the returned list, every
\* input fragment is in exactly one paragraph, exactly once, and no paragraph
\* holds anything that is not an input fragment.
C1_Partition == pc # "start" => IsPartition(paragraphs)

\* a finished run in which the strip split of step 5 cut a paragraph of the
\* initial grouping in two
C1_Witness ==
    /\ pc = "done"
    /\ Len(validateParagraphsAgainstStripsFromInfos(mergeIntoParagraphsFromInfos,
                                                    verticalStrips))
         > Len(mergeIntoParagraphsFromInfos)
    /\ IsPartition(paragraphs)

\* the loop of step 7 (lines 669-693) from guard value g on
RECURSIVE nestedLoop(_, _, _, _, _)
nestedLoop(paras, g, lh, strips, bands) ==
    IF ~ (g < settings.maxIterMerges) THEN paras
    ELSE LET once == mergeNestedParagraphsOnceFromInfos(paras, strips, bands) IN
         IF ~ once.changed THEN once.paragraphs
         ELSE nestedLoop(
                mergeParagraphsFromInfos(
                    validateParagraphsAgainstStripsFromInfos(once.paragraphs, strips),
                    lh, strips, bands),
                g + 1, lh, strips, bands)

\* steps 5 to 7.5 of detectLayout (lines 652-702) applied to a paragraph list
Stages2to5(paras) ==
    mergeStackedColumnParagraphsFromInfos(
        nestedLoop(
            mergeParagraphsFromInfos(
                validateParagraphsAgainstStripsFromInfos(paras, verticalStrips),
                lineHeight, verticalStrips, layoutBands),
            0, lineHeight, verticalStrips, layoutBands),
        lineHeight, verticalStrips, layoutBands)

\* the groups of fragments of a paragraph list
Groups(paras) == { Range(paras[k]) : k \in 1..Len(paras) }

\* C5: strip split, stacked greedy merge, nested loop and final stacked pass,
\* applied with the run's strips, bands, line height and configuration to the
\* paragraphs the run returned, give the same groups of fragments.
C5_FixedPoint == pc = "done" => Groups(Stages2to5(paragraphs)) = Groups(paragraphs)

\* C8: in every returned paragraph consecutive fragments f, g satisfy
\* f.top < g.top, or f.top = g.top and f.left <= g.left.
C8_SortedTopLeft ==
    pc = "done" =>
        \A k \in 1..Len(paragraphs) : \A n \in 1..(Len(paragraphs[k]) - 1) :
            LET f == Rect(paragraphs[k][n])
                g == Rect(paragraphs[k][n + 1])
            IN  f.top < g.top \/ (f.top = g.top /\ f.left <= g.left)

\* a finished run in which step 8.5 had left a paragraph in another order
C8_Witness ==
    /\ pc = "done"
    /\ \E k \in 1..Len(aux.banded) : Len(aux.banded[k]) >= 2
                                       /\ aux.banded[k] # SortTopLeft(aux.banded[k])

\* spans a and b are in one paragraph
SameParagraph(a, b) == \E k \in 1..Len(paragraphs) : { a, b } \subseteq Range(paragraphs[k])

\* the page of the column-separation case: two fragments at the same y-range,
\* one at x in [10,270], one at x in [330,590], and a detected strip at
\* x in [280,320] of confidence >= 0.6
TwoColumnCase ==
    /\ Len(infoMap) = 2
    /\ Rect(1).left = 10 /\ Rect(1).right = 270
    /\ Rect(2).left = 330 /\ Rect(2).right = 590
    /\ Rect(1).top = Rect(2).top /\ Rect(1).bottom = Rect(2).bottom
    /\ \E k \in 1..Len(aux.stripsAll) :
          /\ aux.stripsAll[k].left = 280 /\ aux.stripsAll[k].right = 320
          /\ aux.stripsAll[k].confidence >= 600

\* C2 as stated: under the default configuration the two fragments of the
\* two-column case are in different paragraphs of the final output.
C2_Original ==
    (pc = "done" /\ settings = DefaultSettings /\ TwoColumnCase) => ~ SameParagraph(1, 2)

\* C2, amended: under the default configuration the two fragments of the
\* two-column case are in different paragraphs of the final output when both
\* font sizes are at most 66 px.
C2_ColumnSeparation ==
    (/\ pc = "done" /\ settings = DefaultSettings /\ TwoColumnCase
     /\ Style(1).fontSize <= 66 /\ Style(2).fontSize <= 66)
    => ~ SameParagraph(1, 2)

\* a finished default run of the two-column case with operator fragments of
\* 66 px and a strip the orchestrator keeps
C2_Witness ==
    /\ pc = "done" /\ settings = DefaultSettings /\ TwoColumnCase
    /\ Style(1).fontSize = 66 /\ Style(2).fontSize = 66
    /\ infoMap[1].text = "="
    /\ verticalStrips # <<>>
    /\ ~ SameParagraph(1, 2)

\* the fragments in reading order
ReadingOrder == SortTopLeft([i \in 1..Len(infoMap) |-> i])

\* C3 as stated: with forceLinearMerge, two fragments consecutive in reading
\* order, the second below the first, are in one paragraph of the output.
C3_Original ==
    (pc = "done" /\ forceLinearMerge) =>
        \A n \in 1..(Len(infoMap) - 1) :
            LET a == ReadingOrder[n]
                b == ReadingOrder[n + 1]
            IN  Rect(b).top >= Rect(a).bottom => SameParagraph(a, b)

\* all fragments of the page have one font size
UniformFontSize == \A i \in Spans, j \in Spans : Style(i).fontSize = Style(j).fontSize

\* C3, amended: with forceLinearMerge, on a page whose fragments all have
\* one font size, two fragments consecutive in reading order, the second
\* below the first with a vertical gap of at most
\* min(lineHeight x 1.35, 2.0 x font size), are in one paragraph of the
\* output, whatever their styles and whatever strips and bands lie between.
C3_ForceLinear ==
    (pc = "done" /\ forceLinearMerge /\ UniformFontSize) =>
        \A n \in 1..(Len(infoMap) - 1) :
            LET a == ReadingOrder[n]
                b == ReadingOrder[n + 1]
                gap == Rect(b).top - Rect(a).bottom
            IN  (/\ gap >= 0
                 /\ WithinMergeThreshold(gap, lineHeight, pmGeneralMergeVerticalGapMultiplier,
                                         Style(a).fontSize,
                                         pmGeneralMergeVerticalGapMaxMultiplier))
                => SameParagraph(a, b)

\* a finished forced run that joined two fragments of unlike style in
\* different columns, 20 px apart, with a kept strip and a band between them
C3_Witness ==
    /\ pc = "done" /\ forceLinearMerge
    /\ Len(infoMap) = 2
    /\ Rect(2).left = 330 /\ Rect(2).top - Rect(1).bottom = 20
    /\ Style(1).fontFamily # Style(2).fontFamily
    /\ verticalStrips # <<>> /\ layoutBands # <<>>
    /\ SameParagraph(1, 2)

\* the fragment after a in reading order, b, starts below a's top with its
\* left edge within b's font size x 1.8 of a's, and a's text ends in a hyphen
HyphenCase(a, b) ==
    /\ TextEndsWithHyphen(infoMap[a].text)
    /\ Rect(b).top > Rect(a).top
    /\ Abs(Rect(b).left - Rect(a).left) * 100 < Style(b).fontSize * pmHyphenContinuationTol

\* C4 as stated: a fragment ending in a hyphen and the fragment that follows
\* it in reading order, below it and left-aligned within font size x 1.8, are
\* in one paragraph of the output.
C4_Original ==
    pc = "done" =>
        \A n \in 1..(Len(infoMap) - 1) :
            HyphenCase(ReadingOrder[n], ReadingOrder[n + 1])
                => SameParagraph(ReadingOrder[n], ReadingOrder[n + 1])

\* C4, amended: when the styles of the two fragments also match, the initial
\* grouping (stage 1) puts them in one paragraph, whatever the vertical gap.
C4_HyphenContinuation ==
    pc = "detect" =>
        \A n \in 1..(Len(infoMap) - 1) :
            (/\ HyphenCase(ReadingOrder[n], ReadingOrder[n + 1])
             /\ stylesMatch(infoMap[ReadingOrder[n]], infoMap[ReadingOrder[n + 1]]))
                => SameParagraph(ReadingOrder[n], ReadingOrder[n + 1])

\* the initial grouping joined a hyphenated fragment and the one below it
\* although the gap between them is beyond the vertical threshold of stage 1
C4_Witness ==
    /\ pc = "detect"
    /\ \E n \in 1..(Len(infoMap) - 1) :
          LET a == ReadingOrder[n]
              b == ReadingOrder[n + 1]
          IN  /\ HyphenCase(a, b)
              /\ stylesMatch(infoMap[a], infoMap[b])
              /\ ~ closeAndAligned(infoMap[b], infoMap[a])
              /\ ~ smallInlineKerning(infoMap[b], infoMap[a])
              /\ SameParagraph(a, b)

\* C7: every strip of the gap detector and every layout band carries a
\* confidence between 0 and 1 (thousandths: 0..1000).
C7_ConfidenceRange ==
    /\ \A k \in 1..Len(aux.stripsAll) : aux.stripsAll[k].confidence \in 0..1000
    /\ \A k \in 1..Len(layoutBands) : layoutBands[k].confidence \in 0..1000

C10_NestedLoop ==
    /\ [](nestedPasses <= settings.maxIterMerges)
    /\ [][(pc = "nested" /\ nestedPasses' # nestedPasses) =>
             /\ nestedPasses' = nestedPasses + 1
             /\ Len(paragraphs') < Len(paragraphs) => pc' = "revalidate"
             /\ Len(paragraphs') >= Len(paragraphs) =>
                    pc' = "stacked" /\ Groups(paragraphs') = Groups(paragraphs)]_vars
    /\ [][pc' = "revalidate" => (pc = "nested" /\ Len(paragraphs') < Len(paragraphs))]_vars
    /\ [][pc = "revalidate" =>
             /\ pc' = "remerge"
             /\ paragraphs' = validateParagraphsAgainstStripsFromInfos(paragraphs,
                                                                      verticalStrips)]_vars
    /\ [][pc = "remerge" =>
             /\ pc' = "nested"
             /\ paragraphs' = mergeParagraphsFromInfos(paragraphs, lineHeight,
                                                       verticalStrips, layoutBands)]_vars
    /\ <>(pc = "done")

\* a finished default run whose loop made a merging pass, re-ran stages 2 and
\* 3, and stopped after a second pass that merged nothing
C10_Witness ==
    /\ pc = "done"
    /\ settings.maxIterMerges = maxIterMergesDefault
    /\ nestedPasses = 2
    /\ ~ aux.changed

\* C6: for the page with header at y 0-50, two-column body at y 60-700 and
\* footer at y 710-800, segmentVerticalLayouts returns exactly three segments
\* with column counts 1, 2, 1, whose inner boundaries lie within the largest
\* buffer, avgLineHeight x 0.5, of the transitions at y 50-60 and y 700-710
\* (the result's top and bottom are in tenths of a pixel).
C6_RegionSegmentation ==
    (region.pc = "done" /\ region.spanRects \in ThreePartPages) =>
        LET r == region.result
            tol == 5 * region.avgLineHeight
        IN  /\ Len(r) = 3
            /\ << r[1].columns, r[2].columns, r[3].columns >> = << 1, 2, 1 >>
            /\ { r[1].bottom, r[2].top } \subseteq (500 - tol)..(600 + tol)
            /\ { r[2].bottom, r[3].top } \subseteq (7000 - tol)..(7100 + tol)

----------------------------------------------------------------------------
(* Properties of successive invocations *)

----------------------------------------------------------------------------
(* Properties of segmentVerticalLayouts *)

\* the whole page as one segment of one column, in the units of the result
FullPageSegment ==
    << [top |-> 10 * region.pageRect.top, bottom |-> 10 * region.pageRect.bottom,
        left |-> region.pageRect.left, right |-> region.pageRect.right, columns |-> 1] >>

\* C12: segmentVerticalLayouts never returns an empty list; without
\* fragments, without a density point, or without a segment left by the
\* consolidation, it returns exactly the whole page as one segment of one
\* column.
C12_NeverEmpty ==
    region.pc = "done" =>
        /\ Len(region.result) >= 1
        /\ (region.spanRects = <<>> \/ region.densityPoints = <<>> \/ region.consolidated = <<>>)
              => region.result = FullPageSegment

\* fragments gave density points, and the consolidation kept no segment
C12_Witness ==
    /\ region.pc = "done"
    /\ region.spanRects # <<>>
    /\ region.densityPoints # <<>>
    /\ region.consolidated = <<>>
    /\ region.result = FullPageSegment

----------------------------------------------------------------------------
(* Properties of the bulk translation job *)

\* the modals whose translatePageRange loop is running
RunningJobs == { m \in Modals : bulk.modals[m].job.pc \in JobPositions }

\* C13: at most one bulk translation job is running at any time, and while
\* one is running isBulkTranslationInProgress is true and currentInstance
\* is the modal that runs it.
C13_SingleJob ==
    bulk # NoModal =>
        /\ Cardinality(RunningJobs) <= 1
        /\ \A m \in RunningJobs :
              bulk.isBulkTranslationInProgress /\ bulk.currentInstance = m

\* the page operation of modal m is in progress
InOperation(job) == job.pc \in { "navigate", "translate" }

\* at most maxRetries runs of the page operation, and a run after the first
\* starts only after the backoff delay of the failed run before it
AttemptsAndDelays ==
    bulk # NoModal =>
        \A m \in Modals :
            LET job == bulk.modals[m].job IN
            InOperation(job) =>
                /\ job.attempt + 1 <= 3
                /\ job.attempt = 1 => job.waited = 1500
                /\ job.attempt = 2 => job.waited = 3000

\* a step of modal m's job that starts a run of the page operation
AttemptStarts(m) ==
    /\ bulk.modals[m].job.pc = "attempt"
    /\ bulk'.modals[m].job.pc = "navigate"

\* a step of modal m's job in which the third run of the page operation fails
ThirdFailure(m) ==
    /\ InOperation(bulk.modals[m].job)
    /\ bulk.modals[m].job.attempt = 2
    /\ bulk'.modals[m].job.pc \in { "pacing", "loop", "ended" }
    /\ ~ (/\ bulk'.modals[m].job.pc \in { "pacing", "loop" }
          /\ bulk'.modals[m].job.completed = bulk.modals[m].job.completed + 1)

\* the page in hand is counted as failed and the job goes on
CountedFailed(m) ==
    /\ bulk'.modals[m].job.failed = bulk.modals[m].job.failed + 1
    /\ bulk'.modals[m].job.completed = bulk.modals[m].job.completed
    /\ bulk'.modals[m].job.queue = bulk.modals[m].job.queue
    /\ bulk'.modals[m].job.pc \in { "pacing", "loop" }

NoAttemptOnceCancelled ==
    \A m \in Modals : AttemptStarts(m) => ~ bulk.modals[m].isCancelled

\* C14 as stated: every third failure is counted as a failed page and the
\* job goes on to the next page.
C14_Original ==
    /\ [] AttemptsAndDelays
    /\ [][NoAttemptOnceCancelled]_vars
    /\ [][\A m \in Modals : ThirdFailure(m) => CountedFailed(m)]_vars

\* C14: the page operation runs at most 3 times per page; the run after
\* failed run k (k = 1, 2) starts only after a wait of 1500 x 2^(k-1) ms; no
\* run starts once cancellation has been requested; and after the third
\* failure the page is counted as failed and the job goes on to the next
\* page, unless cancellation has been requested, in which case the job ends
\* there.
C14_RetryBackoff ==
    /\ [] AttemptsAndDelays
    /\ [][NoAttemptOnceCancelled]_vars
    /\ [][\A m \in Modals :
             ThirdFailure(m) =>
                IF bulk.modals[m].isCancelled
                THEN bulk'.modals[m].job.pc = "ended"
                ELSE CountedFailed(m)]_vars

\* a job that counted a page as failed after three runs and is at the first
\* run of the page after it
C14_Witness ==
    /\ bulk # NoModal
    /\ \E m \in Modals :
          /\ bulk.modals[m].job.failed = 1
          /\ bulk.modals[m].job.completed = 0
          /\ bulk.modals[m].job.pageNum = 2
          /\ bulk.modals[m].job.pc = "navigate"
          /\ ~ bulk.modals[m].isCancelled

----------------------------------------------------------------------------
(* Properties of the merger stages *)

\* the bounding box of paragraph para and strip s share some x: the least
\* that straddling a strip asks for
Straddles(para, s) ==
    LET b == getParaBbox(para) IN b.left < s.right /\ b.right > s.left

\* strip s passes the confidence, width and height filters of stage 2
PassesSplitFilters(s) ==
    /\ s.confidence * 100 >= 70 * 1000
    /\ s.right - s.left >= 6
    /\ s.bottom - s.top >= 12

\* C15: stage 2 returns unchanged every paragraph whose bounding box
\* straddles no vertical strip that passes the filters.
C15_SplitOnlyAcrossStrips ==
    pc = "merge" =>
        \A i \in DOMAIN mergeIntoParagraphsFromInfos :
            LET para == mergeIntoParagraphsFromInfos[i] IN
            (\A k \in DOMAIN verticalStrips :
                 PassesSplitFilters(verticalStrips[k]) => ~ Straddles(para, verticalStrips[k]))
              => \E j \in DOMAIN paragraphs : paragraphs[j] = para

\* the paragraphs of ins that make up paragraph out, in the order of ins
PartsOf(out, ins) ==
    LET Inside(para) == Range(para) \subseteq Range(out) IN SelectSeq(ins, Inside)

\* the first k parts, as one paragraph
Accumulated(parts, k) == FlattenSeq(SubSeq(parts, 1, k))

\* the five conditions of stage 3 for the accumulating paragraph acc, seeded
\* by a paragraph of style currStyle, and the paragraph next
Stage3Conditions(acc, currStyle, next) ==
    LET a == getParaBbox(acc)
        b == getParaBbox(next)
        nextStyle == Style(next[1])
        gap == b.top - a.bottom
        maxFontSize == Max(currStyle.fontSize, nextStyle.fontSize)
        tolerance == 2 * currStyle.fontSize
        overlap == Min(a.right, b.right) - Max(a.left, b.left)
        narrower == Max(1, Min(a.right - a.left, b.right - b.left))
    IN  /\ stylesMatchStyle(currStyle, nextStyle)
        /\ sameColumnByStrips(a, b, filterStrips(verticalStrips))
        /\ ~ \E k \in DOMAIN layoutBands :
                /\ layoutBands[k].confidence >= 600
                /\ layoutBands[k].y > PxB(Min(a.bottom, b.bottom))
                /\ layoutBands[k].y + layoutBands[k].height < PxB(Max(a.top, b.top))
        /\ gap * 100 * lineHeight.d <= lineHeight.n * 135
        /\ gap * 100 <= maxFontSize * 200
        /\ \/ Abs(a.left - b.left) < tolerance
           \/ Abs(a.right - b.right) < tolerance
           \/ overlap > 0 /\ overlap * 4 > narrower

\* every paragraph of outs is made of paragraphs of ins, each of which
\* satisfied the five conditions when it was added
MergedUnderConditions(ins, outs) ==
    \A o \in DOMAIN outs :
        LET parts == PartsOf(outs[o], ins) IN
        /\ outs[o] = FlattenSeq(parts)
        /\ \A k \in 2..Len(parts) :
              Stage3Conditions(Accumulated(parts, k - 1), Style(parts[1][1]), parts[k])

\* C16: under the default policy the stacked greedy merge (stage 3) adds a
\* paragraph to the accumulating one only if the two style-match, are in
\* the same column, have no band of confidence >= 0.6 strictly between
\* them, are at most min(lineHeight x 1.35, maxFontSize x 2.0) apart
\* vertically, and are aligned left or right or overlap strongly.
C16_Stage3Conditions ==
    [][(pc \in { "merge", "remerge" } /\ pc' = "nested" /\ ~ forceLinearMerge)
          => MergedUnderConditions(paragraphs, paragraphs')]_vars

\* stage 3 has merged two paragraphs on a page with a band
C16_Witness ==
    /\ pc = "nested"
    /\ guard = 0
    /\ ~ forceLinearMerge
    /\ layoutBands # <<>>
    /\ Len(paragraphs)
         < Len(validateParagraphsAgainstStripsFromInfos(mergeIntoParagraphsFromInfos,
                                                        verticalStrips))

\* the pairwise predicate of stage 3 for the paragraphs P and Q of the page
Stage3Accepts(P, Q) ==
    generalMergeOk(getParaBbox(P), Style(P[1]), Q, lineHeight,
                   filterStrips(verticalStrips), layoutBands)

\* the pairwise predicate of stage 5 for the paragraphs P and Q of the page
Stage5Accepts(P, Q) ==
    stackedMergeOk(PInfo(P), PInfo(Q), lineHeight, filterStrips(verticalStrips), layoutBands)

\* the strips, bands and line height of the page are known
Detected == pc \notin { "start", "detect" }

\* C17 as stated: with default settings stage 5 accepts a pair of paragraphs
\* if and only if stage 3 accepts it.
C17_Original ==
    (Detected /\ settings = DefaultSettings) =>
        \A i \in DOMAIN paragraphs, j \in DOMAIN paragraphs :
            i # j => (Stage5Accepts(paragraphs[i], paragraphs[j])
                        <=> Stage3Accepts(paragraphs[i], paragraphs[j]))

\* C17: with default settings, for a pair of paragraphs whose first
\* fragments have the same font size, stage 5 accepts the pair if and only
\* if stage 3 accepts it and the second paragraph does not start above the
\* bottom of the first.
C17_SameCriteriaFromBottom ==
    (Detected /\ settings = DefaultSettings) =>
        \A i \in DOMAIN paragraphs, j \in DOMAIN paragraphs :
            (i # j /\ Style(paragraphs[i][1]).fontSize = Style(paragraphs[j][1]).fontSize) =>
                (Stage5Accepts(paragraphs[i], paragraphs[j])
                   <=> /\ Stage3Accepts(paragraphs[i], paragraphs[j])
                       /\ getParaBbox(paragraphs[j]).top >= getParaBbox(paragraphs[i]).bottom)

\* a page with a pair that both stages accept and a pair that stage 3
\* accepts although the second paragraph starts above the bottom of the first
C17_Witness ==
    /\ Detected
    /\ settings = DefaultSettings
    /\ \E i \in DOMAIN paragraphs, j \in DOMAIN paragraphs :
          i # j /\ Stage5Accepts(paragraphs[i], paragraphs[j])
    /\ \E i \in DOMAIN paragraphs, j \in DOMAIN paragraphs :
          /\ i # j
          /\ Stage3Accepts(paragraphs[i], paragraphs[j])
          /\ getParaBbox(paragraphs[j]).top < getParaBbox(paragraphs[i]).bottom

\* paragraph P comes before paragraph Q in the order of bounding-box (top, left)
Earlier(P, Q) == BboxTopLeftLess(PInfo(P), PInfo(Q))

\* C18: when the final stacked pass has returned, no pair (earlier
\* paragraph, later paragraph) of its result, in the order of bounding-box
\* (top, left), satisfies the merge predicate of the pass, and the pass
\* applied to its result returns the same paragraphs.
C18_StackedFixedPoint ==
    pc = "stitch" =>
        /\ \A i \in DOMAIN paragraphs, j \in DOMAIN paragraphs :
              Earlier(paragraphs[i], paragraphs[j])
                 => ~ Stage5Accepts(paragraphs[i], paragraphs[j])
        /\ mergeStackedColumnParagraphsFromInfos(paragraphs, lineHeight,
                                                 verticalStrips, layoutBands) = paragraphs

\* the pass has returned on the overlap scene: it joined the first fragment
\* to the pair below it, which stage 3 had left apart, across the fragment
\* of the other style that lies between them in the order
C18_Witness ==
    /\ pc = "stitch"
    /\ infoMap = OverlapSceneWithAside
    /\ Len(paragraphs) = 2
    /\ \E i \in DOMAIN paragraphs, j \in DOMAIN paragraphs :
          /\ Len(paragraphs[i]) = 3
          /\ Earlier(paragraphs[i], paragraphs[j])

\* the merger stages 1 to 5 and the stitching (steps 2 to 8 of detectLayout)
\* run on the fragments of the page with the given strips and bands
MergerStages(strips, bands) ==
    LET initial == mergeIntoParagraphsFromInfos
        lh == estimateLineHeightFromInfos(initial)
    IN  stitchInlineLigaturesFromInfos(
          mergeStackedColumnParagraphsFromInfos(
            nestedLoop(
              mergeParagraphsFromInfos(
                  validateParagraphsAgainstStripsFromInfos(initial, strips),
                  lh, strips, bands),
              0, lh, strips, bands),
            lh, strips, bands))

\* the strips and the bands of the other run
OtherStrips == { keptStrips(stripsAll) : stripsAll \in SimStrips }
OtherBands ==
    { buildLayoutBands(gridBands(horizontalLines), strips, pageRect) :
        horizontalLines \in SimGridOutcomes, strips \in OtherStrips }

\* C20: with forceLinearMerge, a run of the merger stages on the same
\* fragments and configuration with any other strips and bands gives the
\* paragraphs this run has when its merger stages end, and the groups of
\* fragments this run returns; and stage 2 returns the paragraph list it is
\* given, whatever the strips.
C20_ForceLinearIndependence ==
    forceLinearMerge =>
        \A strips \in OtherStrips :
            /\ pc \in { "validate", "revalidate" } =>
                  validateParagraphsAgainstStripsFromInfos(paragraphs, strips) = paragraphs
            /\ \A bands \in OtherBands :
                  /\ pc = "order" => paragraphs = MergerStages(strips, bands)
                  /\ pc = "done" => Groups(paragraphs) = Groups(MergerStages(strips, bands))

\* a finished force-linear run that was given a strip passing the split
\* filters and a band, and returned a paragraph that holds a fragment on
\* either side of the strip
C20_Witness ==
    /\ pc = "done" /\ forceLinearMerge
    /\ layoutBands # <<>>
    /\ \E n \in DOMAIN verticalStrips : PassesSplitFilters(verticalStrips[n])
    /\ \E k \in DOMAIN paragraphs :
          \E a \in Range(paragraphs[k]), b \in Range(paragraphs[k]) :
              /\ infoMap[a].rect.right <= 280
              /\ infoMap[b].rect.left >= 320

\* parts is what the split may return for paragraph para: the paragraph
\* itself, or two or more non-empty groups, pairwise disjoint, that hold
\* the fragments of the paragraph and nothing else
WellSplit(para, parts) ==
    \/ parts = << para >>
    \/ /\ Len(parts) >= 2
       /\ \A k \in DOMAIN parts : parts[k] # <<>>
       /\ \A k \in DOMAIN parts, m \in DOMAIN parts :
             k # m => Range(parts[k]) \cap Range(parts[m]) = {}
       /\ UNION { Range(parts[k]) : k \in DOMAIN parts } = Range(para)
       /\ SumSeq([k \in DOMAIN parts |-> Len(parts[k])]) = Len(para)

\* C21: for every paragraph, the strip-based split returns the paragraph
\* unchanged or at least two non-empty, pairwise disjoint groups whose
\* union is the paragraph's fragments; stage 2 returns these parts, one
\* paragraph after the other.
C21_SplitFrame ==
    /\ [](pc # "start" =>
            \A k \in DOMAIN paragraphs, strips \in { verticalStrips } \cup SimStrips :
               WellSplit(paragraphs[k], splitParagraphByStrips(paragraphs[k], strips, 0)))
    /\ [][(pc \in { "validate", "revalidate" } /\ ~ forceLinearMerge
            /\ filterStrips(verticalStrips) # <<>>)
           => paragraphs' = FlattenSeq([k \in 1..Len(paragraphs) |->
                               splitParagraphByStrips(paragraphs[k],
                                                      filterStrips(verticalStrips), 0)])]_vars

\* stage 2 has cut the paragraph of the staggered scene in two groups,
\* leaving out the empty bucket between the two gaps
C21_Witness ==
    /\ pc = "merge"
    /\ infoMap = StaggeredScene
    /\ Len(mergeIntoParagraphsFromInfos) = 1
    /\ Len(paragraphs) = 2

\* C23: in the list returned by segmentVerticalLayouts no two consecutive
\* segments have the same column count.
C23_NoEqualNeighbours ==
    region.pc = "done" =>
        \A k \in 1..(Len(region.result) - 1) :
            region.result[k].columns # region.result[k + 1].columns

----------------------------------------------------------------------------
(* Properties of buildLayoutBands *)

\* the bands handed to the coalescing of the run: the grid bands and the
\* bands inferred from the extents of the strips
InputBands == gridBands(aux.horizontalLines) \o inferredBands(verticalStrips, pageRect)

\* the vertical extent of band b lies in that of band o
BandWithin(b, o) == o.y <= b.y /\ b.y + b.height <= o.y + o.height

\* max(bandMergeGapPx, lineHeight x bandMergeGapLineHeightMultiplier), in band units
MergeGapB == Max(PxB(bandMergeGapPx), 2 * HalfGapB)

\* C22: the band list built by buildLayoutBands is sorted by y, consecutive
\* bands are more than the merge gap apart, every input or inferred band
\* lies within an output band, and the confidence of an output band is the
\* largest confidence of the bands within it.
C22_BandsCoalesced ==
    pc \notin { "start", "detect", "gaps", "scanned" } =>
        /\ \A k \in 1..(Len(layoutBands) - 1) :
              /\ layoutBands[k].y <= layoutBands[k + 1].y
              /\ layoutBands[k + 1].y
                   > layoutBands[k].y + layoutBands[k].height + MergeGapB
        /\ \A n \in DOMAIN InputBands :
              \E k \in DOMAIN layoutBands : BandWithin(InputBands[n], layoutBands[k])
        /\ \A k \in DOMAIN layoutBands :
              LET within == { n \in DOMAIN InputBands :
                                BandWithin(InputBands[n], layoutBands[k]) }
              IN  /\ within # {}
                  /\ \E n \in within : InputBands[n].confidence = layoutBands[k].confidence
                  /\ \A n \in within : InputBands[n].confidence <= layoutBands[k].confidence

\* two bands were coalesced into one, whose confidence is that of the
\* second, and another band was kept apart
C22_Witness ==
    /\ pc = "validate"
    /\ Len(layoutBands) >= 2
    /\ Len(layoutBands) < Len(InputBands)
    /\ \E k \in DOMAIN layoutBands, n \in DOMAIN InputBands, m \in DOMAIN InputBands :
          /\ InputBands[n].y < InputBands[m].y
          /\ BandWithin(InputBands[n], layoutBands[k])
          /\ BandWithin(InputBands[m], layoutBands[k])
          /\ InputBands[n].confidence < InputBands[m].confidence

----------------------------------------------------------------------------
(* Properties of the gap detector *)

\* strips a and b are near-duplicates: centers within 3, vertical extents
\* overlapping
NearDuplicates(a, b) ==
    /\ Abs((a.left + a.right) - (b.left + b.right)) <= 2 * 3
    /\ Min(a.bottom, b.bottom) - Max(a.top, b.top) > 0

\* C19: the strip list returned by the gap detector holds no two distinct
\* strips whose centers are within 3 of each other and whose vertical
\* extents overlap.
C19_NoNearDuplicates ==
    pc = "scanned" =>
        \A i \in DOMAIN aux.stripsAll, j \in DOMAIN aux.stripsAll :
            i # j => ~ NearDuplicates(aux.stripsAll[i], aux.stripsAll[j])

----------------------------------------------------------------------------
(* Properties of createOverlayWithText *)

\* the number of lines of a text: one more than its newlines; call.lines
\* is the number of lines the call of createOverlayWithText found
LineCount(text) == 1 + Cardinality({ i \in DOMAIN text : text[i] = "\n" })

\* C24: createOverlayWithText renders an overlay only when the translated
\* text has as many lines as there are translation units prepared for the
\* page; on a mismatch it renders nothing, the page is left without overlay
\* container, and no auto-save is requested.
C24_RenderOnlyOnMatch ==
    (plugin.pc = "overlay" /\ plugin.call.pageElement # "null") =>
      LET call == plugin.call IN
      /\ \A text \in Texts : Len(SplitLines(text)) = LineCount(text)
      /\ call.rendered => call.lines = call.units
      /\ call.saveRequested => call.rendered
      /\ (call.units > 0 /\ call.lines # call.units)
           => /\ ~ call.rendered
              /\ ~ call.saveRequested
              /\ plugin.container[call.pageElement] = NoContainer

\* a call with two units prepared and a text of one line, on a page whose
\* earlier overlay it has replaced, while auto-save is on: nothing is
\* rendered and the page is left without container
C24_Witness ==
    /\ plugin.pc = "overlay"
    /\ plugin.call.units = 2
    /\ plugin.call.lines = 1
    /\ plugin.autoSaveOverlay
    /\ plugin.overlayContainers = 2
    /\ plugin.container[plugin.call.pageElement] = NoContainer
    /\ ~ plugin.call.rendered

----------------------------------------------------------------------------
(* Properties of updatePageOverlaysAndWrite *)

InBody(w) == w.state \in { "reading", "modifying", "folder", "creating" }
Settled(w) == w.state \in { "fulfilled", "rejected" }

\* the pages the file holds after the successful bodies of the first k
\* calls, applied one after the other in call order; a body whose read
\* failed starts from an empty overlay (lines 703-706)
RECURSIVE AppliedInOrder(_, _)
AppliedInOrder(writes, k) ==
    IF k = 0 THEN NoOverlays
    ELSE IF writes[k].outcome = "ok"
         THEN MergePages(IF writes[k].readFailed THEN NoOverlays
                         ELSE AppliedInOrder(writes, k - 1),
                         writes[k].page, writes[k].items)
         ELSE AppliedInOrder(writes, k - 1)

C26_EveryBodyRuns ==
    plugin.pc = "storage" =>
      /\ \A i \in DOMAIN plugin.writes :
           /\ plugin.writes[i].ran <= 1
           /\ Settled(plugin.writes[i]) =>
                /\ plugin.writes[i].ran = 1
                /\ plugin.writes[i].state = "fulfilled" <=> plugin.writes[i].outcome = "ok"
      /\ (\A i \in DOMAIN plugin.writes : Settled(plugin.writes[i]))
           => plugin.writingPromises = 0

----------------------------------------------------------------------------
(* Properties of loadSavedOverlayForPage *)

\* the load body of the call is executing
LoadInFlight(load) == load.state \in { "textLayer", "rendering" }

\* C27: for each page at most one non-forced load body is executing at any
\* time: a call that is not forced and arrives while a load of its page is
\* in flight starts no load body of its own.
C27_SingleLoadPerPage ==
    plugin.pc = "load" =>
      \A i, j \in DOMAIN plugin.loads :
        (/\ i < j
         /\ plugin.loads[i].page = plugin.loads[j].page
         /\ ~ plugin.loads[i].force /\ ~ plugin.loads[j].force
         /\ LoadInFlight(plugin.loads[i]))
        => ~ LoadInFlight(plugin.loads[j])

----------------------------------------------------------------------------
(* Properties of the translation file *)

\* what an item is to read back as: trimmed texts, rectangle rounded to
\* four decimals
ReadBack(item) ==
    [textContent |-> Trim(item.textContent),
     relativeRect |-> [left |-> ToFixed4(item.relativeRect.left),
                       top |-> ToFixed4(item.relativeRect.top),
                       width |-> ToFixed4(item.relativeRect.width),
                       height |-> ToFixed4(item.relativeRect.height)],
     page |-> item.page,
     translatedText |-> Trim(item.translatedText)]

\* every item has a width and a height that stay positive when rounded
RectsStayPositive(savedOverlay) ==
    \A p \in DOMAIN savedOverlay : \A k \in DOMAIN savedOverlay[p] :
        /\ ToFixed4(savedOverlay[p][k].relativeRect.width) > 0
        /\ ToFixed4(savedOverlay[p][k].relativeRect.height) > 0

\* C28: a saved overlay whose rectangles stay positive when rounded to 4
\* decimals reads back, through generateMarkdownForOverlay and
\* parseMarkdownOverlay, with the same page numbers and for each page the
\* same items in the same order: same page, same trimmed texts with their
\* newlines, same rectangle rounded to 4 decimals.
C28_RoundTrip ==
    (plugin.pc = "file read" /\ RectsStayPositive(plugin.savedOverlay)) =>
      /\ DOMAIN plugin.parsed = DOMAIN plugin.savedOverlay
      /\ \A p \in DOMAIN plugin.savedOverlay :
           /\ Len(plugin.parsed[p]) = Len(plugin.savedOverlay[p])
           /\ \A k \in DOMAIN plugin.savedOverlay[p] :
                plugin.parsed[p][k] = ReadBack(plugin.savedOverlay[p][k])

----------------------------------------------------------------------------
(* Order of the returned paragraph list *)

\* C29: the paragraph list detectLayout returns is ordered by bounding
\* box: for consecutive paragraphs P and Q, P's top is less than Q's, or
\* the tops are equal and P's left is at most Q's.
C29_ParagraphsOrdered ==
    pc \in { "stitch", "order", "sort", "dedup", "done" } =>
        \A k \in 1..(Len(paragraphs) - 1) :
            LET P == getParaBbox(paragraphs[k])
                Q == getParaBbox(paragraphs[k + 1])
            IN  P.top < Q.top \/ (P.top = Q.top /\ P.left <= Q.left)

\* a returned list whose first paragraph does not hold the first fragment
\* in reading order: the paragraph that starts later reaches further left
C29_Witness ==
    /\ pc = "done"
    /\ Len(paragraphs) >= 2
    /\ ReadingOrder[1] \notin Range(paragraphs[1])
    /\ getParaBbox(paragraphs[1]).top = getParaBbox(paragraphs[2]).top

----------------------------------------------------------------------------
(* Termination of the final stacked pass *)

\* C30: the loop of the final stacked pass terminates: every turn that
\* merges anything leaves strictly fewer paragraphs than it received, the
\* loop has taken at most n turns for n paragraphs received, and it
\* returns.
C30_StackedLoopTerminates ==
    /\ [][StackedTurn => Len(aux'.infos) < Len(aux.infos)]_vars
    /\ [](aux.turns <= Max(1, aux.received))
    /\ <>(pc = "stitch")

\* the loop returned after three turns, two of which merged
C30_Witness ==
    /\ pc = "stitch"
    /\ aux.turns = 3
    /\ Len(paragraphs) < aux.received

=============================================================================
